---- MODULE Spec2Model ----
(***************************************************************************)
(* A model of the Sunside core: exact-sum rounding of the flight sun       *)
(* summary (src/core/sunSummary.ts), flight plans and samples              *)
(* (src/core/flight.ts), daylight classification (src/core/sun.ts) and the *)
(* equirectangular projection, seam splitting and great-circle             *)
(* interpolation (src/core/geo.ts) and the day/night overlay               *)
(* (src/core/daynight.ts).                                                 *)
(*                                                                         *)
(* Numbers.  The program computes in IEEE doubles; the model computes in   *)
(* exact rational arithmetic.  A list of "exact values" is a sequence of   *)
(* value records over one common positive denominator den: the record      *)
(* [k |-> "num", n |-> a] is the number a/den, and [k |-> "nan"] and       *)
(* [k |-> "inf"] are NaN and +Infinity.  A single rational is a record     *)
(* [n |-> a, d |-> b] with b > 0.                                          *)
(***************************************************************************)
EXTENDS Integers, Sequences, FiniteSets, TLC

VARIABLES
    alloc,      \* the rounding functions: their arguments and their result
    sun,        \* classifyDaylight / sunSide: their arguments and results
    geo,        \* projectEquirectangular: its arguments and result
    seam,       \* splitPolylineAtMapSeam: its arguments and result
    flight,     \* createFlightPlan: its arguments, the plan or the error
    sampling,   \* sampleFlightAt: the last two samples taken of the plan
    summary,    \* computeFlightSunSummary: its position, accumulators, result
    overlay,    \* computeDayNightOverlay: its arguments and the overlay
    route,      \* estimateFlightDurationMinutes / interpolateOnGreatCircle
    counting,   \* computeFlightSunSummary: the intervals of a flight of any length
    playback    \* App.svelte: the timeline, its slider and its playback

vars == <<alloc, sun, geo, seam, flight, sampling, summary, overlay, route, counting,
          playback>>

\* no call of a pure function is pending: the core is synchronous and
\* single-threaded, so a call starts only after the one before has returned
NoCall ==
    /\ alloc.op = "none"
    /\ sun.op = "none"
    /\ geo.op = "none"
    /\ seam.op = "none"

----------------------------------------------------------------------------
(* Bounds of the model *)

\* the longest list of exact values handed to the rounding functions
MaxLen == 3
\* the common denominator of the exact values handed to the rounding functions
Den == 2
\* the largest numerator of such a value (values range over 0 .. MaxNum/Den)
MaxNum == 4
\* the largest total handed to the rounding functions
MaxTotal == 4
\* the largest minNonZero handed to allocatePercentagesWithMinimum
MaxMin == 2
\* a total, and a minNonZero, beyond the 100 that allocatePercentagesWithMinimum
\* clamps its total to
OverPercent == 101

----------------------------------------------------------------------------
(* Arithmetic helpers *)

Min(a, b) == IF a <= b THEN a ELSE b

Max(a, b) == IF a >= b THEN a ELSE b

Abs(a) == IF a < 0 THEN -a ELSE a

\* Math.floor of the rational n/d, d > 0
Floor(n, d) == n \div d

\* JavaScript's a % b for integers, b > 0: the result has the sign of a
JsRem(a, b) == IF a >= 0 THEN a % b ELSE -((-a) % b)

Num(a) == [k |-> "num", n |-> a]

NaN == [k |-> "nan", n |-> 0]

Infinity == [k |-> "inf", n |-> 0]

\* Number.isFinite
IsFinite(v) == v.k = "num"

\* base[i] = v, out[i] = v: the array with entry i replaced
setAt(values, i, v) ==
    SubSeq(values, 1, i - 1) \o <<v>> \o SubSeq(values, i + 1, Len(values))

RECURSIVE sum(_)
sum(values) ==
    IF values = <<>> THEN 0 ELSE Head(values) + sum(Tail(values))

\* Number.MAX_SAFE_INTEGER, cut to the model checker's integers: every total
\* of the model lies far below either number
MaxSafeInteger == 2147483647

\* clampInt(value, min, max) of the value v over denominator den
clampInt(v, den, min, max) ==
    IF ~IsFinite(v) THEN min
    ELSE Min(max, Max(min, Floor(v.n, den)))

----------------------------------------------------------------------------
(* sunSummary.ts: allocateByLargestRemainder *)

\* (v) => Number.isFinite(v) && v > 0 ? v : 0, as a numerator over den
SafeNum(v) == IF IsFinite(v) /\ v.n > 0 THEN v.n ELSE 0

\* the indices left in the order of the array, the fractional parts ignored
SortByIndex(frac) == [p \in 1..Len(frac) |-> p]

\* indexed.sort((a, b) => b.frac - a.frac || a.i - b.i): the indices in order
\* of fractional part descending, ties by lowest index
SortFracDesc(frac) ==
    LET n == Len(frac)
        Before(j, i) == frac[j] > frac[i] \/ (frac[j] = frac[i] /\ j < i)
        Rank(i) == Cardinality({j \in 1..n : Before(j, i)})
    IN [p \in 1..n |-> CHOOSE i \in 1..n : Rank(i) = p - 1]

\* the indices from the last to the first, the fractional parts ignored
SortByIndexDescending(frac) == [p \in 1..Len(frac) |-> Len(frac) + 1 - p]

\* indexed.sort((a, b) => a.frac - b.frac || a.i - b.i)
SortFracAsc(frac) ==
    LET n == Len(frac)
        Before(j, i) == frac[j] < frac[i] \/ (frac[j] = frac[i] /\ j < i)
        Rank(i) == Cardinality({j \in 1..n : Before(j, i)})
    IN [p \in 1..n |-> CHOOSE i \in 1..n : Rank(i) = p - 1]

\* for (k = 0; k < initialDiff; k += 1) base[indexed[k % indexed.length].i] += 1
\* (at the start of a round, the whole rounds still to come are taken in one
\* step: each of them adds one to every entry)
RECURSIVE AddLoop(_, _, _, _)
AddLoop(base, order, k, initialDiff) ==
    IF k >= initialDiff THEN base
    ELSE IF k % Len(order) = 0 /\ initialDiff - k >= Len(order)
    THEN LET rounds == (initialDiff - k) \div Len(order)
             added == [i \in 1..Len(base) |-> base[i] + rounds]
         IN AddLoop(SubSeq(added, 1, Len(base)), order, k + rounds * Len(order),
                    initialDiff)
    ELSE LET i == order[(k % Len(order)) + 1]
         IN AddLoop(setAt(base, i, base[i] + 1), order, k + 1, initialDiff)

\* one pass of "for (const entry of indexed)" inside the while loop, from
\* position p on: <<base, remaining, changed>>
RECURSIVE RemovePass(_, _, _, _, _)
RemovePass(base, order, p, remaining, changed) ==
    IF p > Len(order) \/ remaining = 0 THEN <<base, remaining, changed>>
    ELSE LET i == order[p]
         IN IF base[i] <= 0
            THEN RemovePass(base, order, p + 1, remaining, changed)
            ELSE RemovePass(setAt(base, i, base[i] - 1), order, p + 1,
                            remaining - 1, TRUE)

\* while (remaining > 0) { ...pass...; if (!changed) break; }
RECURSIVE RemoveLoop(_, _, _)
RemoveLoop(base, order, remaining) ==
    IF remaining <= 0 THEN base
    ELSE LET r == RemovePass(base, order, 1, remaining, FALSE)
         IN IF ~r[3] THEN r[1] ELSE RemoveLoop(r[1], order, r[2])

\* the final correction's loop: take from base[i], i ascending
RECURSIVE TakeLoop(_, _, _)
TakeLoop(base, i, remaining) ==
    IF i > Len(base) \/ remaining <= 0 THEN base
    ELSE LET take == Min(base[i], remaining)
         IN TakeLoop(setAt(base, i, base[i] - take), i + 1, remaining - take)

FinalCorrection(base, target) ==
    LET diff == target - sum(base)
    IN IF diff > 0 /\ Len(base) > 0 THEN setAt(base, 1, base[1] + diff)
       ELSE IF diff < 0 /\ Len(base) > 0 THEN TakeLoop(base, 1, -diff)
       ELSE base

\* the call throws a TypeError: with no entries and a positive deficit,
\* indexed[k % 0] is undefined and its .i is read
allocateThrows(exactValues, total) ==
    /\ Len(exactValues) = 0
    /\ clampInt(Num(total), 1, 0, MaxSafeInteger) > 0

\* allocateByLargestRemainder with every entry rounded on its own to the
\* nearest integer
allocateByRounding(exactValues, den, total) ==
    [i \in 1..Len(exactValues) |-> Floor(2 * SafeNum(exactValues[i]) + den, 2 * den)]

\* allocateByLargestRemainder(exactValues, total), the values over denominator
\* den; defined where the call does not throw (SubSeq builds each array once,
\* as map() does)
allocateByLargestRemainder(exactValues, den, total) ==
    LET n == Len(exactValues)
        target == clampInt(Num(total), 1, 0, MaxSafeInteger)
        safe == SubSeq([i \in 1..n |-> SafeNum(exactValues[i])], 1, n)
        base == SubSeq([i \in 1..n |-> Floor(safe[i], den)], 1, n)
        frac == SubSeq([i \in 1..n |-> safe[i] - base[i] * den], 1, n)
        initialDiff == target - sum(base)
        adjusted ==
            IF initialDiff > 0
            THEN AddLoop(base, SortFracDesc(frac), 0, initialDiff)
            ELSE IF initialDiff < 0
            THEN RemoveLoop(base, SortFracAsc(frac), -initialDiff)
            ELSE base
    IN IF target = 0 THEN [i \in 1..n |-> 0]
       ELSE FinalCorrection(adjusted, target)

----------------------------------------------------------------------------
(* sunSummary.ts: allocatePercentagesWithMinimum *)

\* a raise that lifts every entry below the minimum, positive or not
RaiseAllToMinimum(rounded, positive, minValue) ==
    [i \in 1..Len(rounded) |-> IF rounded[i] < minValue THEN minValue ELSE rounded[i]]

\* the first loop: raise every positive entry below minValue to minValue
RaiseToMinimum(rounded, positive, minValue) ==
    [i \in 1..Len(rounded) |->
        IF positive[i] /\ rounded[i] < minValue THEN minValue ELSE rounded[i]]

needIndices(rounded, positive, minValue) ==
    {i \in 1..Len(rounded) : positive[i] /\ rounded[i] < minValue}

\* donors: positive, not raised, above the minimum; sorted by value descending,
\* ties by lowest index
donorOrder(out, positive, need, minValue) ==
    LET D == {i \in 1..Len(out) : positive[i] /\ i \notin need /\ out[i] > minValue}
        Before(j, i) == out[j] > out[i] \/ (out[j] = out[i] /\ j < i)
        Rank(i) == Cardinality({j \in D : Before(j, i)})
    IN [p \in 1..Cardinality(D) |-> CHOOSE i \in D : Rank(i) = p - 1]

\* for (const { i } of donors) { ... take ... }
RECURSIVE DonorLoop(_, _, _, _, _)
DonorLoop(out, donors, p, remaining, minValue) ==
    IF p > Len(donors) \/ remaining = 0 THEN out
    ELSE LET i == donors[p]
             canGive == out[i] - minValue
         IN IF canGive <= 0
            THEN DonorLoop(out, donors, p + 1, remaining, minValue)
            ELSE LET take == Min(canGive, remaining)
                 IN DonorLoop(setAt(out, i, out[i] - take), donors, p + 1,
                              remaining - take, minValue)

\* donors[0]?.i ?? positive.findIndex((v) => v); 0 stands for "none" (-1)
adjustIdx(donors, positive) ==
    IF Len(donors) > 0 THEN donors[1]
    ELSE IF \E i \in 1..Len(positive) : positive[i]
    THEN CHOOSE i \in 1..Len(positive) :
            positive[i] /\ \A j \in 1..(i - 1) : ~positive[j]
    ELSE 0

\* the redistribution with the raised entries never paid for by the donors
RedistributeWithoutDonors(rounded, positive, minValue, target) ==
    RaiseToMinimum(rounded, positive, minValue)

\* the redistribution with the units of the raised entries taken from the
\* first entry, whatever it holds
RedistributeFromFirst(rounded, positive, minValue, target) ==
    LET need == needIndices(rounded, positive, minValue)
        raised == RaiseToMinimum(rounded, positive, minValue)
        required == sum([i \in 1..Len(rounded) |->
                            IF i \in need THEN minValue - rounded[i] ELSE 0])
    IN IF required = 0 THEN raised
       ELSE setAt(raised, 1, raised[1] - required)

\* the redistribution, lines 108-147, once the early returns are passed
Redistribute(rounded, positive, minValue, target) ==
    LET need == needIndices(rounded, positive, minValue)
        raised == RaiseToMinimum(rounded, positive, minValue)
        required == sum([i \in 1..Len(rounded) |->
                            IF i \in need THEN minValue - rounded[i] ELSE 0])
        donors == donorOrder(raised, positive, need, minValue)
        available == sum([p \in 1..Len(donors) |->
                            Max(0, raised[donors[p]] - minValue)])
        taken == DonorLoop(raised, donors, 1, required, minValue)
        diff == target - sum(taken)
        idx == adjustIdx(donors, positive)
    IN IF required = 0 THEN raised
       ELSE IF available < required THEN rounded
       ELSE IF diff # 0 /\ idx >= 1 THEN setAt(taken, idx, taken[idx] + diff)
       ELSE taken

\* the target allocatePercentagesWithMinimum rounds to: clampInt(total, 0, 100)
percentTarget(total) == clampInt(Num(total), 1, 0, 100)

\* a rounding that raises every positive entry to the minimum, feasible or not
allocateRaisingToMinimum(exactPercentages, den, total, minNonZero) ==
    LET n == Len(exactPercentages)
        target == percentTarget(total)
        minValue == clampInt(Num(minNonZero), 1, 0, target)
        safeExact == SubSeq([i \in 1..n |-> Num(SafeNum(exactPercentages[i]))], 1, n)
        rounded == allocateByLargestRemainder(safeExact, den, target)
        positive == SubSeq([i \in 1..n |-> safeExact[i].n > 0], 1, n)
    IN RaiseToMinimum(rounded, positive, minValue)

\* allocatePercentagesWithMinimum(exactPercentages, total, minNonZero), the
\* values over denominator den; defined where the call does not throw
allocatePercentagesWithMinimum(exactPercentages, den, total, minNonZero) ==
    LET n == Len(exactPercentages)
        target == percentTarget(total)
        minValue == clampInt(Num(minNonZero), 1, 0, target)
        safeExact == SubSeq([i \in 1..n |-> Num(SafeNum(exactPercentages[i]))], 1, n)
        rounded == allocateByLargestRemainder(safeExact, den, target)
        positive == SubSeq([i \in 1..n |-> safeExact[i].n > 0], 1, n)
        positiveCount == Cardinality({i \in 1..n : positive[i]})
    IN IF target = 0 \/ minValue = 0 \/ n = 0 THEN rounded
       ELSE IF positiveCount = 0 THEN rounded
       ELSE IF positiveCount * minValue > target THEN rounded
       ELSE Redistribute(rounded, positive, minValue, target)

----------------------------------------------------------------------------
(* The rounding functions applied to bounded inputs *)

\* the exact values a caller may hand over: 0 .. MaxNum/Den, one negative
\* number, NaN and Infinity
ExactValues == {Num(a) : a \in -1..MaxNum} \cup {NaN, Infinity}

RECURSIVE SeqsUpTo(_, _)
SeqsUpTo(S, n) ==
    IF n = 0 THEN {<<>>}
    ELSE LET shorter == SeqsUpTo(S, n - 1)
         IN shorter \cup {Append(s, x) : s \in {t \in shorter : Len(t) = n - 1}, x \in S}

AllocIdle == [op |-> "none", values |-> <<>>, total |-> 0, minNonZero |-> 0,
              threw |-> FALSE, out |-> <<>>]

\* a call of allocateByLargestRemainder(values, total)
CallAllocateByLargestRemainder ==
    /\ NoCall
    /\ \E values \in SeqsUpTo(ExactValues, MaxLen), total \in 0..MaxTotal :
          alloc' = [op |-> "allocateByLargestRemainder", values |-> values,
                    total |-> total, minNonZero |-> 0,
                    threw |-> allocateThrows(values, total),
                    out |-> IF allocateThrows(values, total) THEN <<>>
                            ELSE allocateByLargestRemainder(values, Den, total)]
    /\ UNCHANGED <<sun, geo, seam, flight, sampling, summary, overlay, route,
                   counting, playback>>

\* the totals and minima allocatePercentagesWithMinimum is called with: the
\* small ones, and one call whose total and minimum both lie beyond 100
PercentArguments ==
    ((0..MaxTotal) \X (0..MaxMin)) \cup {<<OverPercent, OverPercent>>}

\* a call of allocatePercentagesWithMinimum(values, total, minNonZero)
CallAllocatePercentagesWithMinimum ==
    /\ NoCall
    /\ \E values \in SeqsUpTo(ExactValues, MaxLen), arguments \in PercentArguments :
       LET total == arguments[1]
           minNonZero == arguments[2]
       IN alloc' = [op |-> "allocatePercentagesWithMinimum", values |-> values,
                    total |-> total, minNonZero |-> minNonZero,
                    threw |-> allocateThrows(values, percentTarget(total)),
                    out |-> IF allocateThrows(values, percentTarget(total)) THEN <<>>
                            ELSE allocatePercentagesWithMinimum(values, Den, total,
                                                                minNonZero)]
    /\ UNCHANGED <<sun, geo, seam, flight, sampling, summary, overlay, route,
                   counting, playback>>

\* the caller drops the result and is ready for the next call
AllocReturn ==
    /\ alloc.op # "none"
    /\ alloc' = AllocIdle
    /\ UNCHANGED <<sun, geo, seam, flight, sampling, summary, overlay, route,
                   counting, playback>>

----------------------------------------------------------------------------
(* Rationals *)

RECURSIVE Gcd(_, _)
Gcd(a, b) == IF b = 0 THEN a ELSE Gcd(b, a % b)

\* the rational n/d, d # 0, in lowest terms with a positive denominator
R(n, d) ==
    LET g == Gcd(Abs(n), Abs(d))
        s == IF d < 0 THEN -1 ELSE 1
    IN [n |-> (s * n) \div g, d |-> (s * d) \div g]

RInt(a) == [n |-> a, d |-> 1]

\* sums and products are formed over reduced terms, which keeps the
\* intermediate integers small
RAdd(a, b) ==
    LET g == Gcd(a.d, b.d)
    IN R(a.n * (b.d \div g) + b.n * (a.d \div g), (a.d \div g) * b.d)

RNeg(a) == [n |-> -a.n, d |-> a.d]

RSub(a, b) == RAdd(a, RNeg(b))

RMul(a, b) ==
    LET x == R(a.n, b.d)
        y == R(b.n, a.d)
    IN R(x.n * y.n, x.d * y.d)

RLeq(a, b) == a.n * b.d <= b.n * a.d

RLess(a, b) == a.n * b.d < b.n * a.d

----------------------------------------------------------------------------
(* sun.ts: classifyDaylight;  flight.ts: sunSide *)

\* altitudes are counted in units of 1/DegreeScale of a degree
DegreeScale == 10000

\* headings and bearings are counted in units of 1/AngleScale of a degree
AngleScale == 2

\* the headings tried lie HeadingStepDeg degrees apart
HeadingStepDeg == 15

\* altitudeDeg = (altitudeRad * 180) / Math.PI, for the altitude of a units,
\* that is altitudeRad = a * Math.PI / (180 * DegreeScale)
altitudeDeg(a) == R(a * 180, 180 * DegreeScale)

\* classifyDaylight with -6 degrees itself counted as night
classifyDaylightOpenTwilight(a) ==
    LET deg == altitudeDeg(a)
    IN IF RLess(RInt(0), deg) THEN "day"
       ELSE IF RLess(RInt(-6), deg) THEN "twilight"
       ELSE "night"

\* classifyDaylight with the horizon itself counted as day
classifyDaylightHorizonDay(a) ==
    LET deg == altitudeDeg(a)
    IN IF RLeq(RInt(0), deg) THEN "day"
       ELSE IF RLeq(RInt(-6), deg) THEN "twilight"
       ELSE "night"

classifyDaylight(a) ==
    LET deg == altitudeDeg(a)
    IN IF RLess(RInt(0), deg) THEN "day"
       ELSE IF RLeq(RInt(-6), deg) THEN "twilight"
       ELSE "night"

\* rel = ((sunBearingDeg - headingDeg + 540) % 360) - 180, in angle units
relativeBearing(headingDeg, sunBearingDeg) ==
    JsRem(sunBearingDeg - headingDeg + 540 * AngleScale, 360 * AngleScale)
        - 180 * AngleScale

\* sunSide with left and right exchanged
sunSideMirrored(headingDeg, sunBearingDeg) ==
    LET rel == relativeBearing(headingDeg, sunBearingDeg)
        abs == Abs(rel)
    IN IF abs <= 15 * AngleScale THEN "ahead"
       ELSE IF abs >= 165 * AngleScale THEN "behind"
       ELSE IF rel > 0 THEN "left" ELSE "right"

sunSide(headingDeg, sunBearingDeg) ==
    LET rel == relativeBearing(headingDeg, sunBearingDeg)
        abs == Abs(rel)
    IN IF abs <= 15 * AngleScale THEN "ahead"
       ELSE IF abs >= 165 * AngleScale THEN "behind"
       ELSE IF rel > 0 THEN "right" ELSE "left"

\* sun altitudes from -90 to 90 degrees: every whole degree and its two
\* nearest neighbours
Altitudes ==
    {a \in {d * DegreeScale + e : d \in -90..90, e \in -1..1} :
        Abs(a) <= 90 * DegreeScale}

\* every bearing in [0, 360)
Bearings == 0..(360 * AngleScale - 1)

\* the headings in [0, 360) that are multiples of HeadingStepDeg
Headings == {h \in Bearings : h % (HeadingStepDeg * AngleScale) = 0}

SunIdle == [op |-> "none", altitude |-> 0, headingDeg |-> 0, sunBearingDeg |-> 0,
            status |-> "none", side |-> "none"]

CallClassifyDaylight ==
    /\ NoCall
    /\ \E a \in Altitudes :
          sun' = [SunIdle EXCEPT !.op = "classifyDaylight", !.altitude = a,
                                 !.status = classifyDaylight(a)]
    /\ UNCHANGED <<alloc, geo, seam, flight, sampling, summary, overlay, route,
                   counting, playback>>

CallSunSide ==
    /\ NoCall
    /\ \E h \in Headings, b \in Bearings :
          sun' = [SunIdle EXCEPT !.op = "sunSide", !.headingDeg = h,
                                 !.sunBearingDeg = b, !.side = sunSide(h, b)]
    /\ UNCHANGED <<alloc, geo, seam, flight, sampling, summary, overlay, route,
                   counting, playback>>

SunReturn ==
    /\ sun.op # "none"
    /\ sun' = SunIdle
    /\ UNCHANGED <<alloc, geo, seam, flight, sampling, summary, overlay, route,
                   counting, playback>>

----------------------------------------------------------------------------
(* geo.ts: projectEquirectangular *)

\* latitudes and longitudes tried are the multiples of GeoStep degrees
GeoStep == 5
\* ... up to GeoMargin degrees beyond the valid ranges
GeoMargin == 10
\* the largest canvas width and height, and the largest map width
MaxWidth == 5

\* projectEquirectangular without the clamping of lat and lon
projectUnclamped(point, width, height) ==
    [x |-> RMul(R(point.lon + 180, 360), width),
     y |-> RMul(R(90 - point.lat, 180), height)]

\* projectEquirectangular(point, width, height): x and y as rationals, for
\* a point in whole degrees and a rational width and height
projectEquirectangular(point, width, height) ==
    LET lat == Max(-90, Min(90, point.lat))
        lon == Max(-180, Min(180, point.lon))
    IN [x |-> RMul(R(lon + 180, 360), width),
        y |-> RMul(R(90 - lat, 180), height)]

Latitudes == {l \in -(90 + GeoMargin)..(90 + GeoMargin) : l % GeoStep = 0}

Longitudes == {l \in -(180 + GeoMargin)..(180 + GeoMargin) : l % GeoStep = 0}

GeoIdle == [op |-> "none", point |-> [lat |-> 0, lon |-> 0], width |-> 0,
            height |-> 0, projected |-> [x |-> RInt(0), y |-> RInt(0)]]

CallProjectEquirectangular ==
    /\ NoCall
    /\ \E lat \in Latitudes, lon \in Longitudes, width \in 0..MaxWidth,
          height \in 0..MaxWidth :
          geo' = [op |-> "projectEquirectangular",
                  point |-> [lat |-> lat, lon |-> lon],
                  width |-> width, height |-> height,
                  projected |-> projectEquirectangular([lat |-> lat, lon |-> lon],
                                                       RInt(width), RInt(height))]
    /\ UNCHANGED <<alloc, sun, seam, flight, sampling, summary, overlay, route,
                   counting, playback>>

GeoReturn ==
    /\ geo.op # "none"
    /\ geo' = GeoIdle
    /\ UNCHANGED <<alloc, sun, seam, flight, sampling, summary, overlay, route,
                   counting, playback>>

----------------------------------------------------------------------------
(* geo.ts: splitPolylineAtMapSeam.  A point is [x |-> integer, y |-> rational] *)

\* the longest polyline handed to splitPolylineAtMapSeam
MaxPoints == 3

Last(seq) == seq[Len(seq)]

\* the body of "for (const point of points)" for the points from index idx on,
\* then "if (current.length) segments.push(current)"
RECURSIVE splitLoop(_, _, _, _, _)
splitLoop(points, idx, segments, current, width) ==
    IF idx > Len(points)
    THEN IF Len(current) > 0 THEN Append(segments, current) ELSE segments
    ELSE
      LET point == points[idx]
          prev == Last(current)
          dx == point.x - prev.x
          \* prev.x > point.x: the line leaves through x = width
          denomR == (point.x + width) - prev.x
          yR == RAdd(prev.y, RMul(R(width - prev.x, denomR), RSub(point.y, prev.y)))
          \* otherwise it leaves through x = 0
          denomL == (point.x - width) - prev.x
          yL == RAdd(prev.y, RMul(R(0 - prev.x, denomL), RSub(point.y, prev.y)))
      IN IF Len(current) = 0
         THEN splitLoop(points, idx + 1, segments, <<point>>, width)
         ELSE IF 2 * Abs(dx) <= width
         THEN splitLoop(points, idx + 1, segments, Append(current, point), width)
         ELSE IF prev.x > point.x
         THEN IF denomR = 0
              THEN splitLoop(points, idx + 1, Append(segments, current),
                             <<point>>, width)
              ELSE splitLoop(points, idx + 1,
                             Append(segments, Append(current, [x |-> width, y |-> yR])),
                             <<[x |-> 0, y |-> yR], point>>, width)
         ELSE IF denomL = 0
              THEN splitLoop(points, idx + 1, Append(segments, current),
                             <<point>>, width)
              ELSE splitLoop(points, idx + 1,
                             Append(segments, Append(current, [x |-> 0, y |-> yL])),
                             <<[x |-> width, y |-> yL], point>>, width)

\* the loop of a split that cuts at a jump and puts in no point on the seam
RECURSIVE cutLoop(_, _, _, _, _)
cutLoop(points, idx, segments, current, width) ==
    IF idx > Len(points)
    THEN IF Len(current) > 0 THEN Append(segments, current) ELSE segments
    ELSE IF Len(current) = 0 \/ 2 * Abs(points[idx].x - Last(current).x) <= width
    THEN cutLoop(points, idx + 1, segments, Append(current, points[idx]), width)
    ELSE cutLoop(points, idx + 1, Append(segments, current), <<points[idx]>>, width)

splitWithoutSeamPoints(points, width) ==
    IF width <= 0 THEN <<points>>
    ELSE IF Len(points) <= 1
    THEN IF Len(points) > 0 THEN <<points>> ELSE <<>>
    ELSE cutLoop(points, 1, <<>>, <<>>, width)

\* splitPolylineAtMapSeam that never splits
splitNowhere(points, width) ==
    IF Len(points) > 0 THEN <<points>> ELSE <<>>

\* splitPolylineAtMapSeam(points, width), width a finite number
splitPolylineAtMapSeam(points, width) ==
    IF width <= 0 THEN <<points>>
    ELSE IF Len(points) <= 1
    THEN IF Len(points) > 0 THEN <<points>> ELSE <<>>
    ELSE splitLoop(points, 1, <<>>, <<>>, width)

\* projected points: x from 0 to one past the largest width, y on two rows
SeamPoints == {[x |-> x, y |-> RInt(y)] : x \in 0..(MaxWidth + 1), y \in {0, 3}}

SeamIdle == [op |-> "none", points |-> <<>>, width |-> 0, segments |-> <<>>]

CallSplitPolylineAtMapSeam ==
    /\ NoCall
    /\ \E points \in SeqsUpTo(SeamPoints, MaxPoints), width \in 0..MaxWidth :
          seam' = [op |-> "splitPolylineAtMapSeam", points |-> points,
                   width |-> width,
                   segments |-> splitPolylineAtMapSeam(points, width)]
    /\ UNCHANGED <<alloc, sun, geo, flight, sampling, summary, overlay, route,
                   counting, playback>>

SeamReturn ==
    /\ seam.op # "none"
    /\ seam' = SeamIdle
    /\ UNCHANGED <<alloc, sun, geo, flight, sampling, summary, overlay, route,
                   counting, playback>>

----------------------------------------------------------------------------
(* time.ts: durationMinutes;  flight.ts: createFlightPlan, sampleFlightAt *)

\* milliseconds in a minute: the divisor of durationMinutes
MillisPerMinute == 60000

\* flights last up to MaxHalfMinutes half minutes, give or take a millisecond,
\* or up to MaxTinyMillis milliseconds
MaxHalfMinutes == 3
MaxTinyMillis == 4
\* ... and one flight of ShortMillis milliseconds, which default options cut
\* into 180 intervals of 2 or 3 milliseconds
ShortMillis == 400

\* timeline fractions tried are the multiples of 1/FractionDen from
\* -1/FractionDen to 1 + 1/FractionDen
FractionDen == 3

\* Math.round of the rational n/d, d > 0: halves round towards +Infinity
Round(n, d) == Floor(2 * n + d, 2 * d)

\* durationMinutes(startMillis, endMillis)
durationMinutes(startMillis, endMillis) ==
    Round(endMillis - startMillis, MillisPerMinute)

\* validateChronology that lets an arrival at the departure instant pass
validateChronologyStrict(departureUtc, arrivalUtc) == arrivalUtc < departureUtc

\* validateChronology(departureUtc, arrivalUtc) throws
validateChronology(departureUtc, arrivalUtc) == arrivalUtc <= departureUtc

NoPlan == [departureUtc |-> 0, arrivalUtc |-> 0, durationMinutes |-> 0]

\* the FlightPlan createFlightPlan returns when validateChronology passes; the
\* airports, the zoned times and the great-circle path are carried through
\* unchanged and are left out
createFlightPlan(departureUtc, arrivalUtc) ==
    [departureUtc |-> departureUtc, arrivalUtc |-> arrivalUtc,
     durationMinutes |-> durationMinutes(departureUtc, arrivalUtc)]

\* the clamp without its upper end: Math.max(0, t)
clampFractionBelow(t) == IF RLess(t, RInt(0)) THEN RInt(0) ELSE t

\* Math.min(1, Math.max(0, t)) of the rational t
clampFraction(t) ==
    LET lower == IF RLess(t, RInt(0)) THEN RInt(0) ELSE t
    IN IF RLess(RInt(1), lower) THEN RInt(1) ELSE lower

\* sampleFlightAt(plan, t).  The sun's altitude at the sampled place and time
\* (getSunPosition, the SunCalc library), the heading (headingAt) and the sun's
\* compass bearing (sunBearingFromNorth) are floating-point trigonometry and
\* enter as the arguments altitude, headingDeg and sunBearingDeg.
sampleFlightAt(plan, t, altitude, headingDeg, sunBearingDeg) ==
    LET clamped == clampFraction(t)
        totalMillis == plan.arrivalUtc - plan.departureUtc
    IN [t |-> clamped,
        utcMillis |-> RAdd(RInt(plan.departureUtc), RMul(clamped, RInt(totalMillis))),
        status |-> classifyDaylight(altitude),
        side |-> sunSide(headingDeg, sunBearingDeg)]

\* epoch milliseconds of ZonedDateTime values (toZonedDateTime and fromUtcMillis
\* throw on an invalid time, so millis is a finite integer)
\* the earliest departure, and one later than all arrivals but one
DepartureTimes == {0, MaxHalfMinutes * (MillisPerMinute \div 2)}

ArrivalTimes ==
    {a \in {k * (MillisPerMinute \div 2) + e : k \in 0..MaxHalfMinutes, e \in -1..1} :
        a >= 0}
    \cup 0..MaxTinyMillis
    \cup {ShortMillis}

Fractions == {R(k, FractionDen) : k \in -1..(FractionDen + 1)}

\* what the sun and the route hand to one sample: the sun's altitude (night,
\* both ends of twilight, day), the heading and the sun's bearing (ahead, right,
\* behind, left)
SampleConditions ==
    {[altitude |-> a, headingDeg |-> 0, sunBearingDeg |-> b * AngleScale] :
        a \in {-7 * DegreeScale, -6 * DegreeScale, 0, DegreeScale},
        b \in {0, 90, 180, 270}}

\* the conditions tried on a single sample of the timeline: night or day,
\* the sun ahead or to the right
TimelineConditions ==
    {c \in SampleConditions :
        /\ c.altitude \in {-7 * DegreeScale, DegreeScale}
        /\ c.sunBearingDeg \in {0, 90 * AngleScale}}

FlightIdle == [op |-> "none", departureUtc |-> 0, arrivalUtc |-> 0,
               threw |-> FALSE, hasPlan |-> FALSE, plan |-> NoPlan]

NoSample == [fraction |-> RInt(0), t |-> RInt(0), utcMillis |-> RInt(0),
             status |-> "none", side |-> "none"]

\* of the sample before the last, the fraction and the instant are kept
NoInstant == [fraction |-> RInt(0), t |-> RInt(0), utcMillis |-> RInt(0)]

SamplingIdle == [taken |-> 0, last |-> NoSample, prev |-> NoInstant]

\* createFlightPlan(departureAirport, arrivalAirport, departureTime, arrivalTime)
CallCreateFlightPlan ==
    /\ flight.op = "none"
    /\ \E departureUtc \in DepartureTimes, arrivalUtc \in ArrivalTimes :
          flight' =
            IF validateChronology(departureUtc, arrivalUtc)
            THEN [op |-> "createFlightPlan", departureUtc |-> departureUtc,
                  arrivalUtc |-> arrivalUtc, threw |-> TRUE, hasPlan |-> FALSE,
                  plan |-> NoPlan]
            ELSE [op |-> "createFlightPlan", departureUtc |-> departureUtc,
                  arrivalUtc |-> arrivalUtc, threw |-> FALSE, hasPlan |-> TRUE,
                  plan |-> createFlightPlan(departureUtc, arrivalUtc)]
    /\ UNCHANGED <<alloc, sun, geo, seam, sampling, summary, overlay, route,
                   counting, playback>>

\* sampleFlightAt(plan, fraction) on the plan createFlightPlan returned
CallSampleFlightAt ==
    /\ flight.hasPlan
    /\ \E fraction \in Fractions, c \in TimelineConditions :
          LET s == sampleFlightAt(flight.plan, fraction, c.altitude, c.headingDeg,
                                  c.sunBearingDeg)
          IN sampling' = [taken |-> Min(2, sampling.taken + 1),
                          last |-> [fraction |-> fraction, t |-> s.t,
                                    utcMillis |-> s.utcMillis, status |-> s.status,
                                    side |-> s.side],
                          prev |-> [fraction |-> sampling.last.fraction,
                                    t |-> sampling.last.t,
                                    utcMillis |-> sampling.last.utcMillis]]
    /\ UNCHANGED <<alloc, sun, geo, seam, flight, summary, overlay, route,
                   counting, playback>>

----------------------------------------------------------------------------
(* sunSummary.ts: computeFlightSunSummary *)

\* the sun's condition is chosen afresh for each of the first MaxIntervals - 1
\* intervals of a flight and once more for all the intervals after them; the
\* same number is the largest minIntervals and maxIntervals passed in the
\* options
MaxIntervals == 3

BUCKET_ORDER == <<"left", "right", "ahead", "behind", "night">>

DAYLIGHT_ORDER == <<"day", "twilight", "night">>

\* Math.ceil of the rational n/d, d > 0
Ceil(n, d) == -Floor(-n, d)

\* an option of 0 stands for an option left out (both take the default)
DefaultOptions == [intervalTargetMinutes |-> 0, minIntervals |-> 0, maxIntervals |-> 0]

\* a count that is not capped at the milliseconds of the flight
intervalCountUncapped(totalMillis, options) ==
    LET intervalTargetMinutes ==
            IF options.intervalTargetMinutes > 0 THEN options.intervalTargetMinutes ELSE 2
        minIntervals == IF options.minIntervals > 0 THEN options.minIntervals ELSE 180
        maxIntervals == IF options.maxIntervals > 0 THEN options.maxIntervals ELSE 5000
        targetIntervals ==
            Max(1, Ceil(totalMillis, MillisPerMinute * intervalTargetMinutes))
    IN clampInt(Num(Max(minIntervals, targetIntervals)), 1, 1, maxIntervals)

\* the number of intervals, lines 192-200
intervalCount(totalMillis, options) ==
    LET intervalTargetMinutes ==
            IF options.intervalTargetMinutes > 0 THEN options.intervalTargetMinutes ELSE 2
        minIntervals == IF options.minIntervals > 0 THEN options.minIntervals ELSE 180
        maxIntervals == IF options.maxIntervals > 0 THEN options.maxIntervals ELSE 5000
        \* Math.ceil(totalMinutesExact / intervalTargetMinutes)
        targetIntervals ==
            Max(1, Ceil(totalMillis, MillisPerMinute * intervalTargetMinutes))
        clamped == clampInt(Num(Max(minIntervals, targetIntervals)), 1, 1, maxIntervals)
    IN Min(clamped, Max(1, totalMillis))

\* start - plan.departureUtc of interval i (0-based); the end of interval i
\* is the start of interval i + 1
\* (the product i * totalMillis is taken in two parts, the whole multiples of
\* intervals in totalMillis and the rest, to stay within the model checker's
\* integers for flights of days: totalMillis >= 0, intervals > 0)
intervalStart(totalMillis, intervals, i) ==
    i * (totalMillis \div intervals) + Floor(i * (totalMillis % intervals), intervals)

\* a span that leaves out the last millisecond of the interval
intervalSpanOpenEnded(totalMillis, intervals, i) ==
    intervalStart(totalMillis, intervals, i + 1) - intervalStart(totalMillis, intervals, i) - 1

\* the span of interval i: end - start
intervalSpan(totalMillis, intervals, i) ==
    intervalStart(totalMillis, intervals, i + 1) - intervalStart(totalMillis, intervals, i)

\* t of the midpoint of interval i: (start + span / 2 - departureUtc) / totalMillis
intervalMidFraction(totalMillis, intervals, i) ==
    R(2 * intervalStart(totalMillis, intervals, i)
        + intervalSpan(totalMillis, intervals, i),
      2 * totalMillis)

\* a bucket that is the side of the sun whatever the daylight
bucketOfSide(sample) == sample.side

\* the direction bucket of a sample, line 212
bucketOf(sample) == IF sample.status = "night" THEN "night" ELSE sample.side

ZeroBuckets == [k \in {"left", "right", "ahead", "behind", "night"} |-> 0]

ZeroStatus == [k \in {"day", "twilight", "night"} |-> 0]

\* the buckets of one grouping from its millis, lines 216-253
roundedBuckets(order, millis, totalMillis, totalMinutes) ==
    LET n == Len(order)
        percentExact == [j \in 1..n |-> Num(millis[order[j]] * 100)]
        percentRounded == allocatePercentagesWithMinimum(percentExact, totalMillis, 100, 1)
        minutesExact == [j \in 1..n |-> Num(millis[order[j]])]
        minutesRounded == allocateByLargestRemainder(minutesExact, MillisPerMinute,
                                                     totalMinutes)
    IN [j \in 1..n |-> [key |-> order[j],
                        millis |-> millis[order[j]],
                        fraction |-> R(millis[order[j]], totalMillis),
                        percent |-> percentRounded[j],
                        minutes |-> minutesRounded[j]]]

\* the all-zero buckets returned when totalMillis <= 0, lines 163-184
emptyBuckets(order) ==
    [j \in 1..Len(order) |-> [key |-> order[j], millis |-> 0, fraction |-> RInt(0),
                              percent |-> 0, minutes |-> 0]]

NoResult == [buckets |-> <<>>, daylight |-> <<>>]

\* of the options, the state keeps whether they were the defaults
SummaryIdle == [pc |-> "idle", defaults |-> FALSE, totalMillis |-> 0,
                totalMinutes |-> 0, intervals |-> 0, i |-> 0, steps |-> 0,
                bucketMillis |-> ZeroBuckets, statusMillis |-> ZeroStatus,
                result |-> NoResult]

\* the options callers pass: none, or small interval counts
SummaryOptions ==
    {DefaultOptions}
    \cup {[intervalTargetMinutes |-> m, minIntervals |-> lo, maxIntervals |-> hi] :
            m \in 0..1, lo \in 1..MaxIntervals, hi \in 1..MaxIntervals}

\* computeFlightSunSummary(plan, options), up to the loop (lines 151-200)
SummaryBegin ==
    /\ flight.hasPlan
    /\ summary.pc = "idle"
    /\ \E options \in SummaryOptions :
          LET totalMillis == Max(0, flight.plan.arrivalUtc - flight.plan.departureUtc)
              totalMinutes == Max(0, flight.plan.durationMinutes)
          IN summary' =
                  IF totalMillis <= 0
                  THEN [SummaryIdle EXCEPT
                          !.pc = "done", !.defaults = (options = DefaultOptions),
                          !.totalMinutes = totalMinutes,
                          !.result = [buckets |-> emptyBuckets(BUCKET_ORDER),
                                      daylight |-> emptyBuckets(DAYLIGHT_ORDER)]]
                  ELSE [SummaryIdle EXCEPT
                          !.pc = "loop", !.defaults = (options = DefaultOptions),
                          !.totalMillis = totalMillis,
                          !.totalMinutes = totalMinutes,
                          !.intervals = intervalCount(totalMillis, options)]
    /\ UNCHANGED <<alloc, sun, geo, seam, flight, sampling, overlay, route,
                   counting, playback>>

\* the loop body, lines 203-213, for interval i under the sun's condition c:
\* the accumulators after it
afterInterval(plan, totalMillis, intervals, i, c, acc) ==
    LET span == intervalSpan(totalMillis, intervals, i)
        t == intervalMidFraction(totalMillis, intervals, i)
        sample == sampleFlightAt(plan, t, c.altitude, c.headingDeg, c.sunBearingDeg)
    IN IF span <= 0 THEN acc
       ELSE [statusMillis |-> [acc.statusMillis EXCEPT ![sample.status] = @ + span],
             bucketMillis |-> [acc.bucketMillis EXCEPT ![bucketOf(sample)] = @ + span]]

\* the loop body for the intervals i .. upTo - 1, i < upTo <= intervals, all
\* of them under the same condition c: every sample has the status and the
\* side of the first, and the spans add up to the end of the last of these
\* intervals less the start of interval i
afterIntervals(plan, totalMillis, intervals, i, upTo, c, acc) ==
    LET span == intervalStart(totalMillis, intervals, upTo)
                    - intervalStart(totalMillis, intervals, i)
        t == intervalMidFraction(totalMillis, intervals, i)
        sample == sampleFlightAt(plan, t, c.altitude, c.headingDeg, c.sunBearingDeg)
    IN IF span <= 0 THEN acc
       ELSE [statusMillis |-> [acc.statusMillis EXCEPT ![sample.status] = @ + span],
             bucketMillis |-> [acc.bucketMillis EXCEPT ![bucketOf(sample)] = @ + span]]

\* one pass of the loop, lines 202-214
SummaryInterval ==
    /\ summary.pc = "loop"
    /\ summary.i < summary.intervals
    /\ summary.steps < MaxIntervals - 1
    /\ \E c \in SampleConditions :
          LET acc == afterInterval(flight.plan, summary.totalMillis, summary.intervals,
                                   summary.i, c,
                                   [statusMillis |-> summary.statusMillis,
                                    bucketMillis |-> summary.bucketMillis])
          IN summary' = [summary EXCEPT
                !.i = @ + 1, !.steps = @ + 1,
                !.statusMillis = acc.statusMillis,
                !.bucketMillis = acc.bucketMillis]
    /\ UNCHANGED <<alloc, sun, geo, seam, flight, sampling, overlay, route,
                   counting, playback>>

\* all the passes of the loop that remain, the sun's condition being the same
\* in each of them
SummaryRemainingIntervals ==
    /\ summary.pc = "loop"
    /\ summary.i < summary.intervals
    /\ \E c \in SampleConditions :
          LET acc == afterIntervals(flight.plan, summary.totalMillis,
                                    summary.intervals, summary.i, summary.intervals, c,
                                    [statusMillis |-> summary.statusMillis,
                                     bucketMillis |-> summary.bucketMillis])
          IN summary' = [summary EXCEPT
                !.i = summary.intervals, !.steps = @ + 1,
                !.statusMillis = acc.statusMillis,
                !.bucketMillis = acc.bucketMillis]
    /\ UNCHANGED <<alloc, sun, geo, seam, flight, sampling, overlay, route,
                   counting, playback>>

\* all the passes of the loop from the first up to the middle of the flight,
\* the sun's condition being the same in each of them (followed for the
\* summaries computed with default options); one more pass is followed alone
\* after them
SummaryIntervalsToMiddle ==
    /\ summary.pc = "loop"
    /\ summary.defaults
    /\ summary.i = 0
    /\ summary.intervals >= 2
    /\ \E c \in SampleConditions :
          LET acc == afterIntervals(flight.plan, summary.totalMillis,
                                    summary.intervals, summary.i,
                                    summary.intervals \div 2, c,
                                    [statusMillis |-> summary.statusMillis,
                                     bucketMillis |-> summary.bucketMillis])
          IN summary' = [summary EXCEPT
                !.i = summary.intervals \div 2, !.steps = MaxIntervals - 2,
                !.statusMillis = acc.statusMillis,
                !.bucketMillis = acc.bucketMillis]
    /\ UNCHANGED <<alloc, sun, geo, seam, flight, sampling, overlay, route,
                   counting, playback>>

\* the rounding and the returned summary, lines 216-255
SummaryFinish ==
    /\ summary.pc = "loop"
    /\ summary.i = summary.intervals
    /\ summary' = [summary EXCEPT
          !.pc = "done",
          !.result = [buckets |-> roundedBuckets(BUCKET_ORDER, summary.bucketMillis,
                                                 summary.totalMillis,
                                                 summary.totalMinutes),
                      daylight |-> roundedBuckets(DAYLIGHT_ORDER, summary.statusMillis,
                                                  summary.totalMillis,
                                                  summary.totalMinutes)]]
    /\ UNCHANGED <<alloc, sun, geo, seam, flight, sampling, overlay, route,
                   counting, playback>>

\* the caller is done with the summary
SummaryReturn ==
    /\ summary.pc = "done"
    /\ summary' = SummaryIdle
    /\ UNCHANGED <<alloc, sun, geo, seam, flight, sampling, overlay, route,
                   counting, playback>>

\* the caller drops the plan (or the error) and its samples
FlightReturn ==
    /\ flight.op # "none"
    /\ summary.pc = "idle"
    /\ flight' = FlightIdle
    /\ sampling' = SamplingIdle
    /\ UNCHANGED <<alloc, sun, geo, seam, summary, overlay, route,
                   counting, playback>>

----------------------------------------------------------------------------
(* daynight.ts: computeDayNightOverlay.  A path string is the sequence of   *)
(* its commands: "M x y", "L x y" and "Z", the coordinates as fmt prints    *)
(* them, in tenths; the empty string is the empty sequence, and joining     *)
(* path strings with ' ' is concatenation.                                  *)

\* the largest whole canvas width and height
MaxCanvas == 2
\* canvas sizes also range over the multiples of 1 / CanvasGrain
CanvasGrain == 20
\* the largest number of samples asked of computeDayNightOverlay
MaxSamples == 3

RMin(a, b) == IF RLeq(a, b) THEN a ELSE b

RMax(a, b) == IF RLeq(a, b) THEN b ELSE a

\* clamp(value, min, max) = Math.min(max, Math.max(min, value))
clamp(value, min, max) == RMin(max, RMax(min, value))

\* EQUINOX_LAT_EPS_DEG = 1e-3
EQUINOX_LAT_EPS_DEG == R(1, 1000)

\* fmt(value): Math.round(value * 10) / 10 printed with one decimal; the
\* result in tenths
fmt(value) == Round(10 * value.n, value.d)

MoveTo(x, y) == [op |-> "M", x |-> x, y |-> y]

LineTo(x, y) == [op |-> "L", x |-> x, y |-> y]

\* ' Z'
ClosePath == [op |-> "Z", x |-> 0, y |-> 0]

polylinePath(points) ==
    [i \in 1..Len(points) |->
        IF i = 1 THEN MoveTo(fmt(points[i].x), fmt(points[i].y))
        ELSE LineTo(fmt(points[i].x), fmt(points[i].y))]

\* polygonNorthOfCurve that closes the polyline on itself, not against the top
polygonNorthUnclosed(points, width) ==
    IF Len(points) = 0 THEN <<>> ELSE polylinePath(points) \o <<ClosePath>>

polygonNorthOfCurve(points, width) ==
    IF Len(points) = 0 THEN <<>>
    ELSE polylinePath(points) \o <<LineTo(fmt(width), 0), LineTo(0, 0), ClosePath>>

polygonSouthOfCurve(points, width, height) ==
    IF Len(points) = 0 THEN <<>>
    ELSE polylinePath(points)
            \o <<LineTo(fmt(width), fmt(height)), LineTo(0, fmt(height)), ClosePath>>

rectPath(x0, x1, height) ==
    <<MoveTo(fmt(x0), 0), LineTo(fmt(x1), 0), LineTo(fmt(x1), fmt(height)),
      LineTo(fmt(x0), fmt(height)), ClosePath>>

\* pushRect(out, x0, x1, width, height): the rectangles joined so far and, if
\* it is wider than 1e-6, the new one
pushRect(out, x0, x1, width, height) ==
    LET start == clamp(RMin(x0, x1), RInt(0), width)
        end == clamp(RMax(x0, x1), RInt(0), width)
        span == RSub(end, start)
    IN IF span.n <= span.d \div 1000000 THEN out
       ELSE out \o rectPath(start, end, height)

\* verticalLinePath with both lines drawn at the first x
verticalLineAtZero(x, height) ==
    <<MoveTo(0, 0), LineTo(0, fmt(height))>>

\* verticalLinePath(x, height): x clamped to [0, Infinity)
verticalLinePath(x, height) ==
    LET cx == RMax(x, RInt(0))
    IN <<MoveTo(fmt(cx), 0), LineTo(fmt(cx), fmt(height))>>

\* lonToX that takes the longitude from 0 to 360
lonToXFromZero(lonDeg, width) == RMul(R(lonDeg + 360, 360), width)

\* lonToX(lonDeg, width)
lonToX(lonDeg, width) == RMul(R(lonDeg + 180, 360), width)

\* normalizeLon(lonDeg) = ((lonDeg + 540) % 360) - 180, whole degrees
normalizeLon(lonDeg) == JsRem(lonDeg + 540, 360) - 180

\* computeEquinoxOverlay(subsolar, width, height, sun): its three paths
computeEquinoxOverlay(subsolar, width, height) ==
    LET lon1 == normalizeLon(subsolar.lon - 90)
        lon2 == normalizeLon(subsolar.lon + 90)
        x1 == lonToX(lon1, width)
        x2 == lonToX(lon2, width)
        dayRects ==
            IF RLeq(x1, x2)
            THEN pushRect(<<>>, x1, x2, width, height)
            ELSE pushRect(pushRect(<<>>, RInt(0), x2, width, height),
                          x1, width, width, height)
        nightRects ==
            IF RLeq(x1, x2)
            THEN pushRect(pushRect(<<>>, RInt(0), x1, width, height),
                          x2, width, width, height)
            ELSE pushRect(<<>>, x2, x1, width, height)
    IN [terminatorPath |-> verticalLinePath(x1, height) \o verticalLinePath(x2, height),
        dayPath |-> dayRects,
        nightPath |-> nightRects]

\* bandPolygonPath(inner, outer): inner forward, outer backward, closed
bandPolygonPath(inner, outer) ==
    IF Len(inner) = 0 \/ Len(inner) # Len(outer) THEN <<>>
    ELSE polylinePath(inner)
            \o [i \in 1..Len(outer) |->
                  LineTo(fmt(outer[Len(outer) + 1 - i].x),
                         fmt(outer[Len(outer) + 1 - i].y))]
            \o <<ClosePath>>

\* longitudes spaced over the half-open range [-180, 180): -180 + (i / count) * 360
sampleLonHalfOpen(i, count) == -180 + (i * 360) \div count

\* the longitude of sample i of count, i from 0: -180 + (i / (count - 1)) * 360,
\* a whole number of degrees for the counts of the model
sampleLon(i, count) == -180 + (i * 360) \div (count - 1)

\* sampleTerminatorByLongitude(subsolar, width, height, samples), count being
\* Math.max(2, Math.floor(samples)).  terminatorLatitudeDeg is trigonometry
\* on doubles with values in [-90, 90]: termLat[lon] stands for its value at
\* the longitude lon
sampleTerminatorByLongitude(termLat, width, height, count) ==
    [i \in 1..count |->
        projectEquirectangular([lat |-> termLat[sampleLon(i - 1, count)],
                                lon |-> sampleLon(i - 1, count)], width, height)]

\* solarAltitudeContourLatitudeDeg returned null
NoSolution == 1000

\* a band builder that puts the pole of the day side where there is no solution
twilightBandWithDayPole(subsolar, termLat, civilLat, width, height, count) ==
    LET dayIsNorth == subsolar.lat.n > 0
        lonAt(i) == sampleLon(i - 1, count)
        civil(i) == IF civilLat[lonAt(i)] = NoSolution
                    THEN (IF dayIsNorth THEN 90 ELSE -90)
                    ELSE civilLat[lonAt(i)]
        inner == [i \in 1..count |->
                    projectEquirectangular([lat |-> termLat[lonAt(i)], lon |-> lonAt(i)],
                                           width, height)]
        outer == [i \in 1..count |->
                    projectEquirectangular([lat |-> civil(i), lon |-> lonAt(i)],
                                           width, height)]
    IN bandPolygonPath(inner, outer)

\* computeTwilightBandPathByLongitude; civilLat[lon] stands for the value of
\* solarAltitudeContourLatitudeDeg at the longitude lon, or NoSolution
computeTwilightBandPathByLongitude(subsolar, termLat, civilLat, width, height, count) ==
    LET dayIsNorth == subsolar.lat.n > 0
        lonAt(i) == sampleLon(i - 1, count)
        civil(i) == IF civilLat[lonAt(i)] = NoSolution
                    THEN (IF dayIsNorth THEN -90 ELSE 90)
                    ELSE civilLat[lonAt(i)]
        inner == [i \in 1..count |->
                    projectEquirectangular([lat |-> termLat[lonAt(i)], lon |-> lonAt(i)],
                                           width, height)]
        outer == [i \in 1..count |->
                    projectEquirectangular([lat |-> civil(i), lon |-> lonAt(i)],
                                           width, height)]
    IN bandPolygonPath(inner, outer)

\* unwrapLongitudes(lons)
RECURSIVE unwrapLoop(_, _)
unwrapLoop(lons, out) ==
    IF Len(out) = Len(lons) THEN out
    ELSE LET lon == lons[Len(out) + 1]
             prev == out[Len(out)]
             \* while (lon - prev > 180) lon -= 360; while (lon - prev < -180) lon += 360
             down == IF lon - prev > 180
                     THEN lon - 360 * Ceil(lon - prev - 180, 360)
                     ELSE lon
             up == IF down - prev < -180
                   THEN down + 360 * Ceil(prev - 180 - down, 360)
                   ELSE down
         IN unwrapLoop(lons, Append(out, up))

unwrapLongitudes(lons) ==
    IF Len(lons) = 0 THEN <<>> ELSE unwrapLoop(lons, <<lons[1]>>)

\* alignLongitudes(reference, raw)
RECURSIVE alignLoop(_, _, _)
alignLoop(reference, raw, out) ==
    IF Len(out) = Len(raw) THEN out
    ELSE LET i == Len(out) + 1
             base == raw[i]
             target == reference[i]
             lon == base + 360 * Round(target - base, 360)
             prev == out[Len(out)]
             down == IF i > 1 /\ lon - prev > 180
                     THEN lon - 360 * Ceil(lon - prev - 180, 360)
                     ELSE lon
             up == IF i > 1 /\ down - prev < -180
                   THEN down + 360 * Ceil(prev - 180 - down, 360)
                   ELSE down
         IN alignLoop(reference, raw, Append(out, IF i = 1 THEN lon ELSE up))

alignLongitudes(reference, raw) ==
    IF Len(reference) = 0 \/ Len(reference) # Len(raw) THEN raw
    ELSE alignLoop(reference, raw, <<>>)

\* findRightToLeftSeamIndex(points, width), the index counted from 0
findRightToLeftSeamIndex(points, width) ==
    LET jumps == {i \in 2..Len(points) :
                    /\ RLess(width, RMul(RInt(2), RSub(points[i - 1].x, points[i].x)))
                    /\ RLess(points[i].x, points[i - 1].x)}
    IN IF Len(points) < 2 \/ RLeq(width, RInt(0)) \/ jumps = {} THEN 0
       ELSE (CHOOSE i \in jumps : \A j \in jumps : i <= j) - 1

\* rotate(arr, startIndex)
rotate(arr, startIndex) ==
    IF Len(arr) = 0 THEN arr
    ELSE LET idx == JsRem(JsRem(startIndex, Len(arr)) + Len(arr), Len(arr))
         IN IF idx = 0 THEN arr
            ELSE SubSeq(arr, idx + 1, Len(arr)) \o SubSeq(arr, 1, idx)

\* seamIntersections returned null
NoSeam == [found |-> FALSE, end |-> [x |-> RInt(0), y |-> RInt(0)],
           start |-> [x |-> RInt(0), y |-> RInt(0)]]

\* seamIntersections(from, to, width)
seamIntersections(from, to, width) ==
    LET denomR == RSub(RAdd(to.x, width), from.x)
        yR == RAdd(from.y, RMul(RMul(RSub(width, from.x), R(denomR.d, denomR.n)),
                                RSub(to.y, from.y)))
        denomL == RSub(RSub(to.x, width), from.x)
        yL == RAdd(from.y, RMul(RMul(RNeg(from.x), R(denomL.d, denomL.n)),
                                RSub(to.y, from.y)))
    IN IF RLeq(width, RInt(0)) THEN NoSeam
       ELSE IF RLess(to.x, from.x)
       THEN IF denomR.n = 0 THEN NoSeam
            ELSE [found |-> TRUE, end |-> [x |-> width, y |-> yR],
                  start |-> [x |-> RInt(0), y |-> yR]]
       ELSE IF denomL.n = 0 THEN NoSeam
            ELSE [found |-> TRUE, end |-> [x |-> RInt(0), y |-> yL],
                  start |-> [x |-> width, y |-> yL]]

\* flush(): the paths with the current band, if it has two points or more
flush(paths, currentInner, currentOuter) ==
    IF Len(currentInner) >= 2 /\ Len(currentOuter) >= 2
    THEN paths \o bandPolygonPath(currentInner, currentOuter)
    ELSE paths

\* the loop of splitBandAtMapSeam from index i (counted from 1) on, then the
\* last flush
RECURSIVE bandLoop(_, _, _, _, _, _, _)
bandLoop(inner, outer, i, paths, currentInner, currentOuter, width) ==
    IF i > Len(inner) THEN flush(paths, currentInner, currentOuter)
    ELSE
      LET prevI == inner[i - 1]
          curI == inner[i]
          prevO == outer[i - 1]
          curO == outer[i]
          dx == RSub(curI.x, prevI.x)
          absDx == IF dx.n < 0 THEN RNeg(dx) ELSE dx
          seamInner == seamIntersections(prevI, curI, width)
          seamOuter == seamIntersections(prevO, curO, width)
      IN IF RLeq(RMul(RInt(2), absDx), width)
         THEN bandLoop(inner, outer, i + 1, paths, Append(currentInner, curI),
                       Append(currentOuter, curO), width)
         ELSE IF ~seamInner.found \/ ~seamOuter.found
         THEN bandLoop(inner, outer, i + 1, flush(paths, currentInner, currentOuter),
                       <<curI>>, <<curO>>, width)
         ELSE bandLoop(inner, outer, i + 1,
                       flush(paths, Append(currentInner, seamInner.end),
                             Append(currentOuter, seamOuter.end)),
                       <<seamInner.start, curI>>, <<seamOuter.start, curO>>, width)

\* splitBandAtMapSeam(inner, outer, width)
splitBandAtMapSeam(inner, outer, width) ==
    IF Len(inner) < 2 \/ Len(inner) # Len(outer) THEN <<>>
    ELSE IF RLeq(width, RInt(0)) THEN bandPolygonPath(inner, outer)
    ELSE bandLoop(inner, outer, 2, <<>>, <<inner[1]>>, <<outer[1]>>, width)

\* computeTwilightBandPathByContour.  sampleSolarAltitudeContour is
\* trigonometry on doubles: terminator and civil stand for the points it
\* returns for the altitudes 0 and -6, lat in [-90, 90] and lon, normalized,
\* in [-180, 180)
computeTwilightBandPathByContour(terminator, civil, width, height) ==
    LET lons(points) == [i \in 1..Len(points) |-> points[i].lon]
        terminatorLon == unwrapLongitudes(lons(terminator))
        civilLon == alignLongitudes(terminatorLon, lons(civil))
        termProj == [i \in 1..Len(terminator) |->
                        projectEquirectangular(
                            [lat |-> terminator[i].lat,
                             lon |-> normalizeLon(terminatorLon[i])], width, height)]
        civilProj == [i \in 1..Len(civil) |->
                        projectEquirectangular(
                            [lat |-> civil[i].lat,
                             lon |-> normalizeLon(civilLon[i])], width, height)]
        startIndex == findRightToLeftSeamIndex(termProj, width)
    IN IF Len(terminator) = 0 \/ Len(terminator) # Len(civil) THEN <<>>
       ELSE splitBandAtMapSeam(rotate(termProj, startIndex),
                               rotate(civilProj, startIndex), width)

\* what the trigonometry hands to one call: the terminator and civil-twilight
\* latitudes by longitude, and the two contours sampled around the subsolar
\* axis
NoSky == [termLat |-> <<>>, civilLat |-> <<>>, terminator |-> <<>>, civil |-> <<>>]

\* |subsolar.lat| <= EQUINOX_LAT_EPS_DEG
nearEquinox(subsolar) ==
    /\ RLeq(RNeg(EQUINOX_LAT_EPS_DEG), subsolar.lat)
    /\ RLeq(subsolar.lat, EQUINOX_LAT_EPS_DEG)

\* computeTwilightBandPath(subsolar, width, height, samples)
computeTwilightBandPath(subsolar, width, height, samples, sky) ==
    LET count == Max(3, samples)
    IN IF RLeq(width, RInt(0)) \/ RLeq(height, RInt(0)) THEN <<>>
       ELSE IF nearEquinox(subsolar)
       THEN computeTwilightBandPathByContour(sky.terminator, sky.civil, width, height)
       ELSE computeTwilightBandPathByLongitude(subsolar, sky.termLat, sky.civilLat,
                                               width, height, count)

NoPaths == [terminatorPath |-> <<>>, dayPath |-> <<>>, nightPath |-> <<>>,
            twilightPath |-> <<>>]

\* computeDayNightOverlay that draws on a canvas of any size
computeDayNightOverlayUnguarded(subsolar, width, height, samples, sky) ==
    LET terminator == sampleTerminatorByLongitude(sky.termLat, width, height,
                                                  Max(2, samples))
    IN [terminatorPath |-> polylinePath(terminator),
        dayPath |-> polygonNorthOfCurve(terminator, width),
        nightPath |-> polygonSouthOfCurve(terminator, width, height),
        twilightPath |-> <<>>]

\* computeDayNightOverlay(timestamp, width, height, samples): the four paths,
\* subsolar being getSubsolarPoint(timestamp)
computeDayNightOverlay(subsolar, width, height, samples, sky) ==
    LET equinox == computeEquinoxOverlay(subsolar, width, height)
        terminator == sampleTerminatorByLongitude(sky.termLat, width, height,
                                                  Max(2, samples))
        northPoly == polygonNorthOfCurve(terminator, width)
        southPoly == polygonSouthOfCurve(terminator, width, height)
        dayIsNorth == subsolar.lat.n > 0
    IN IF RLeq(width, RInt(0)) \/ RLeq(height, RInt(0)) THEN NoPaths
       ELSE IF nearEquinox(subsolar)
       THEN [terminatorPath |-> equinox.terminatorPath,
             dayPath |-> equinox.dayPath,
             nightPath |-> equinox.nightPath,
             twilightPath |-> computeTwilightBandPath(subsolar, width, height,
                                                      samples, sky)]
       ELSE [terminatorPath |-> polylinePath(terminator),
             dayPath |-> IF dayIsNorth THEN northPoly ELSE southPoly,
             nightPath |-> IF dayIsNorth THEN southPoly ELSE northPoly,
             twilightPath |-> computeTwilightBandPath(subsolar, width, height,
                                                      samples, sky)]

\* the largest declination of the sun, in whole degrees
MaxDeclination == 23

\* subsolar latitudes at and inside the equinox threshold
EquinoxLats == {RNeg(EQUINOX_LAT_EPS_DEG), RInt(0), EQUINOX_LAT_EPS_DEG}

\* subsolar latitudes just outside the threshold and at the solstices
OtherLats ==
    {RSub(RInt(0), RMul(R(3, 2), EQUINOX_LAT_EPS_DEG)),
     RMul(R(3, 2), EQUINOX_LAT_EPS_DEG),
     RInt(-MaxDeclination), RInt(MaxDeclination)}

\* subsolar longitudes, in [-180, 180)
SubsolarLons == {-180, 0, 90}

\* canvas sizes: not positive, a fraction of a tenth, and whole
Widths ==
    {R(k, CanvasGrain) : k \in -1..1} \cup {RInt(MaxCanvas)}

Heights == {RInt(0), R(1, CanvasGrain), RInt(MaxCanvas)}

\* the samples argument: fewer than the least number taken, and the largest
SampleCounts == {0, MaxSamples}

\* the longitudes the terminator and the twilight band are sampled at
sampledLons(samples) ==
    {sampleLon(i, Max(2, samples)) : i \in 0..(Max(2, samples) - 1)}
    \cup {sampleLon(i, Max(3, samples)) : i \in 0..(Max(3, samples) - 1)}

\* latitudes of the terminator: a pole and a middle latitude
TerminatorLats == {-90, 45}

\* civil-twilight latitudes: none on the meridian, or a middle latitude
CivilLats == {NoSolution, 39}

\* points of the terminator contour near both sides of the seam and in the
\* middle of the map
ContourPoints ==
    {[lat |-> 60, lon |-> -170], [lat |-> 0, lon |-> 0], [lat |-> -60, lon |-> 170]}

\* how far east of a terminator point the civil contour's point lies
CivilShifts == {0, 20}

\* the civil contour's point that goes with a terminator point
civilPoint(p, shift) ==
    [lat |-> Max(-90, p.lat - 6), lon |-> normalizeLon(p.lon + shift)]

\* the sky is not looked at for a canvas without area (the guard of line 28
\* returns first), so one value of it is enough there
skyChoice(values, width, height) ==
    IF width.n > 0 /\ height.n > 0 THEN values
    ELSE {CHOOSE v \in values : TRUE}

\* next to the arguments and the paths, the state keeps the longitudes at
\* which solarAltitudeContourLatitudeDeg returned null
OverlayIdle == [op |-> "none", subsolar |-> [lat |-> RInt(0), lon |-> 0],
                width |-> RInt(0), height |-> RInt(0), samples |-> 0,
                unsolved |-> {}, paths |-> NoPaths]

\* computeDayNightOverlay at an instant away from the equinoxes
CallComputeDayNightOverlay ==
    /\ overlay.op = "none"
    /\ \E lat \in OtherLats, lon \in SubsolarLons, width \in Widths,
          height \in Heights, samples \in SampleCounts :
          \E termLat \in [sampledLons(samples) -> skyChoice(TerminatorLats, width, height)],
             civilLat \in [sampledLons(samples) -> skyChoice(CivilLats, width, height)] :
             LET subsolar == [lat |-> lat, lon |-> lon]
                 sky == [NoSky EXCEPT !.termLat = termLat, !.civilLat = civilLat]
             IN overlay' = [op |-> "computeDayNightOverlay", subsolar |-> subsolar,
                            width |-> width, height |-> height, samples |-> samples,
                            unsolved |-> IF width.n > 0 /\ height.n > 0
                                         THEN {l \in sampledLons(samples) :
                                                  civilLat[l] = NoSolution}
                                         ELSE {},
                            paths |-> computeDayNightOverlay(subsolar, width, height,
                                                             samples, sky)]
    /\ UNCHANGED <<alloc, sun, geo, seam, flight, sampling, summary, route,
                   counting, playback>>

\* computeDayNightOverlay at an instant within the equinox threshold
CallComputeDayNightOverlayAtEquinox ==
    /\ overlay.op = "none"
    /\ \E lat \in EquinoxLats, lon \in SubsolarLons, width \in Widths,
          height \in Heights, samples \in SampleCounts :
          \E terminator \in [1..Max(3, samples) -> skyChoice(ContourPoints, width, height)],
             shifts \in [1..Max(3, samples) -> skyChoice(CivilShifts, width, height)] :
             LET subsolar == [lat |-> lat, lon |-> lon]
                 civil == [i \in 1..Max(3, samples) |->
                              civilPoint(terminator[i], shifts[i])]
                 sky == [NoSky EXCEPT !.terminator = terminator, !.civil = civil]
             IN overlay' = [op |-> "computeDayNightOverlay", subsolar |-> subsolar,
                            width |-> width, height |-> height, samples |-> samples,
                            unsolved |-> {},
                            paths |-> computeDayNightOverlay(subsolar, width, height,
                                                             samples, sky)]
    /\ UNCHANGED <<alloc, sun, geo, seam, flight, sampling, summary, route,
                   counting, playback>>

OverlayReturn ==
    /\ overlay.op # "none"
    /\ overlay' = OverlayIdle
    /\ UNCHANGED <<alloc, sun, geo, seam, flight, sampling, summary, route,
                   counting, playback>>

----------------------------------------------------------------------------
(* flight.ts: estimateFlightDurationMinutes;  geo.ts: interpolateOnGreatCircle *)

\* A JavaScript number in estimateFlightDurationMinutes is a binary64 double:
\* a significand of at most SignificandBits bits, written as a sequence of
\* bits with the most significant first, times 2^e. Each division and
\* multiplication rounds its exact result to the nearest such number, ties to
\* the even significand, as the source's / and * do.
SignificandBits == 53

\* whole numbers too long for one machine word are sequences of limbs of
\* LimbBits bits, the most significant first
LimbBits == 15

Limb == 2 ^ LimbBits

RECURSIVE bitsOf(_)
bitsOf(n) == IF n = 0 THEN <<>> ELSE Append(bitsOf(n \div 2), n % 2)

RECURSIVE natOf(_)
natOf(bits) ==
    IF bits = <<>> THEN 0
    ELSE 2 * natOf(SubSeq(bits, 1, Len(bits) - 1)) + bits[Len(bits)]

zeros(count) == [i \in 1..count |-> 0]

stripZeros(bits) ==
    LET ones == {i \in 1..Len(bits) : bits[i] = 1}
    IN IF ones = {} THEN <<>>
       ELSE SubSeq(bits, CHOOSE i \in ones : \A j \in ones : i <= j, Len(bits))

limbsOf(bits) ==
    LET count == (Len(bits) + LimbBits - 1) \div LimbBits
        padded == zeros(count * LimbBits - Len(bits)) \o bits
    IN [j \in 1..count |-> natOf(SubSeq(padded, (j - 1) * LimbBits + 1, j * LimbBits))]

bitsOfLimbs(limbs) ==
    stripZeros([i \in 1..(LimbBits * Len(limbs)) |->
                   (limbs[(i - 1) \div LimbBits + 1]
                       \div (2 ^ (LimbBits - 1 - ((i - 1) % LimbBits)))) % 2])

\* limbs * k for a small k, by the school method from the last limb
RECURSIVE mulLoop(_, _, _, _)
mulLoop(limbs, k, carry, out) ==
    IF limbs = <<>> THEN <<carry>> \o out
    ELSE LET t == limbs[Len(limbs)] * k + carry
         IN mulLoop(SubSeq(limbs, 1, Len(limbs) - 1), k, t \div Limb, <<t % Limb>> \o out)

mulSmall(bits, k) == bitsOfLimbs(mulLoop(limbsOf(bits), k, 0, <<>>))

\* limbs / d for a small d, by long division: the quotient and the remainder
RECURSIVE divLoop(_, _, _, _)
divLoop(limbs, d, rem, out) ==
    IF limbs = <<>> THEN [q |-> out, r |-> rem]
    ELSE LET t == Limb * rem + limbs[1]
         IN divLoop(Tail(limbs), d, t % d, Append(out, t \div d))

divSmall(bits, d) ==
    LET res == divLoop(limbsOf(bits), d, 0, <<>>)
    IN [q |-> bitsOfLimbs(res.q), r |-> res.r]

\* bits + 1
increment(bits) ==
    LET clear == {i \in 1..Len(bits) : bits[i] = 0}
    IN IF clear = {} THEN <<1>> \o zeros(Len(bits))
       ELSE LET last == CHOOSE i \in clear : \A j \in clear : i >= j
            IN SubSeq(bits, 1, last - 1) \o <<1>> \o zeros(Len(bits) - last)

\* the double nearest to bits * 2^e (+ something below the last bit when
\* sticky): round to nearest, ties to even
roundToDouble(bits, e, sticky) ==
    IF Len(bits) <= SignificandBits THEN [m |-> bits, e |-> e]
    ELSE LET kept == SubSeq(bits, 1, SignificandBits)
             dropped == SubSeq(bits, SignificandBits + 1, Len(bits))
             guard == dropped[1]
             rest == sticky \/ \E i \in 2..Len(dropped) : dropped[i] = 1
             up == guard = 1 /\ (rest \/ kept[SignificandBits] = 1)
             m == IF up THEN increment(kept) ELSE kept
             shift == Len(dropped)
         IN IF Len(m) > SignificandBits
            THEN [m |-> SubSeq(m, 1, SignificandBits), e |-> e + shift + 1]
            ELSE [m |-> m, e |-> e + shift]

\* the double of a whole number
doubleOf(n) == [m |-> bitsOf(n), e |-> 0]

\* x / d in doubles, for a positive whole d
bitLength(n) == Len(bitsOf(n))

divDouble(x, d) ==
    LET pad == SignificandBits + bitLength(d) + 2
        res == divSmall(x.m \o zeros(pad), d)
    IN roundToDouble(res.q, x.e - pad, res.r # 0)

\* x * k in doubles, for a positive whole k
mulDouble(x, k) == roundToDouble(mulSmall(x.m, k), x.e, FALSE)

\* Math.ceil of a double x >= 0
ceilDouble(x) ==
    IF x.e >= 0 THEN natOf(x.m \o zeros(x.e))
    ELSE LET whole == Len(x.m) + x.e
             int == IF whole <= 0 THEN 0 ELSE natOf(SubSeq(x.m, 1, whole))
             frac == \E i \in (IF whole <= 0 THEN 1 ELSE whole + 1)..Len(x.m) : x.m[i] = 1
         IN IF frac THEN int + 1 ELSE int

\* a distance in metres: a whole number, or not finite
Metres(n) == [k |-> "num", n |-> n]
NotFinite == [k |-> "nan", n |-> 0]

\* estimateFlightDurationMinutes(distanceMeters, options); an option that is
\* absent is 0, which the source treats like undefined
estimateFlightDurationMinutes(distanceMeters, options) ==
    LET cruiseSpeedKmh == IF options.cruiseSpeedKmh > 0 THEN options.cruiseSpeedKmh ELSE 900
        roundToMinutes == IF options.roundToMinutes > 0 THEN options.roundToMinutes ELSE 30
        minMinutes == IF options.minMinutes > 0 THEN options.minMinutes ELSE roundToMinutes
    IN IF distanceMeters.k # "num" \/ distanceMeters.n <= 0 THEN minMinutes
       ELSE LET rawMinutes ==
                    mulDouble(divDouble(divDouble(doubleOf(distanceMeters.n), 1000),
                                        cruiseSpeedKmh), 60)
                rounded == ceilDouble(divDouble(rawMinutes, roundToMinutes)) * roundToMinutes
            IN Max(minMinutes, rounded)

\* a point of the unit sphere, as toCartesian computes it from a point with a
\* latitude in [-90, 90]: Math.cos and Math.sin have period 360 degrees, so
\* the vector of a longitude beyond +/-180 is the vector of the longitude one
\* turn back; the doubles cos(pi/2) and sin(+/-pi) are tiny and not 0, so the
\* vectors at a pole keep their longitude and those at -180 and 180 differ.
\* The vector is written by the latitude and longitude that atan2 reads back
\* from it.
toCartesian(point) ==
    [lat |-> point.lat,
     lon |-> IF point.lon > 180 THEN point.lon - 360
             ELSE IF point.lon < -180 THEN point.lon + 360
             ELSE point.lon]

\* fromCartesian([x, y, z]): atan2(y, x) and atan2(z, hyp), in degrees
fromCartesian(vector) == [lat |-> vector.lat, lon |-> vector.lon]

\* omega === 0: the dot product of the two vectors rounds to 1, which on this
\* grid happens exactly when they point at the same place of the globe
omegaIsZero(a, b) ==
    /\ a.lat = b.lat
    /\ \/ Abs(a.lat) = 90
       \/ (a.lon - b.lon) % 360 = 0

\* createGreatCirclePath(from, to): the two ends (distanceMeters and
\* centralAngle are not read by interpolateOnGreatCircle)
createGreatCirclePath(from, to) == [from |-> from, to |-> to]

\* interpolateOnGreatCircle that returns the start of the path at every t
interpolateAtStart(path, t, between) == fromCartesian(toCartesian(path.from))

\* interpolateOnGreatCircle(path, t); at a clamped t of 0 the factors
\* sin(omega)/sin(omega) and sin(0)/sin(omega) are exactly 1 and 0, at 1 they
\* are 0 and 1; strictly between, the point on the arc is `between`
interpolateOnGreatCircle(path, t, between) ==
    LET clamped == RMin(RInt(1), RMax(RInt(0), t))
        a == toCartesian(path.from)
        b == toCartesian(path.to)
    IN IF omegaIsZero(a, b) THEN path.from
       ELSE IF clamped = RInt(0) THEN fromCartesian(a)
       ELSE IF clamped = RInt(1) THEN fromCartesian(b)
       ELSE fromCartesian(between)

\* the longest flight the duration is estimated for, in steps of FlightStep
\* metres (one minute at 900 km/h), and how far off a step a distance is
MaxFlightSteps == 31

FlightStep == 15000

MaxOffStep == 1

Distances ==
    {NotFinite} \cup {Metres(-1)}
        \cup {Metres(k * FlightStep + j) : k \in 0..MaxFlightSteps, j \in 0..MaxOffStep}

\* options: 0 is an option left out
CruiseSpeeds == {0, 900}

RoundTos == {0, 1, 20}

MinMinutes == {0, 1, 45}

\* the ends of a path: latitudes of the poles, the equator and between,
\* longitudes on the seam, beyond it and between
EndLats == {-90, -45, 0, 45, 90}

EndLons == {-190, -180, -90, 0, 90, 180, 190}

EndPoints == [lat : EndLats, lon : EndLons]

\* the points of the arc the model draws from for a t strictly between
ArcPoints == [lat : {-45, 45}, lon : {-90, 90}]

RouteIdle ==
    [op |-> "none", distanceMeters |-> Metres(0),
     options |-> [cruiseSpeedKmh |-> 0, roundToMinutes |-> 0, minMinutes |-> 0],
     minutes |-> 0,
     path |-> createGreatCirclePath([lat |-> 0, lon |-> 0], [lat |-> 0, lon |-> 0]),
     t |-> RInt(0), point |-> [lat |-> 0, lon |-> 0]]

CallEstimateFlightDurationMinutes ==
    /\ route.op = "none"
    /\ \E distanceMeters \in Distances, cruiseSpeedKmh \in CruiseSpeeds,
          roundToMinutes \in RoundTos, minMinutes \in MinMinutes :
          LET options == [cruiseSpeedKmh |-> cruiseSpeedKmh,
                          roundToMinutes |-> roundToMinutes,
                          minMinutes |-> minMinutes]
          IN route' = [RouteIdle EXCEPT
                 !.op = "estimateFlightDurationMinutes",
                 !.distanceMeters = distanceMeters,
                 !.options = options,
                 !.minutes = estimateFlightDurationMinutes(distanceMeters, options)]
    /\ UNCHANGED <<alloc, sun, geo, seam, flight, sampling, summary, overlay,
                   counting, playback>>

CallInterpolateOnGreatCircle ==
    /\ route.op = "none"
    /\ \E from \in EndPoints, to \in EndPoints, t \in Fractions :
          \E between \in (IF RLess(RInt(0), t) /\ RLess(t, RInt(1))
                          THEN ArcPoints ELSE {from}) :
             LET path == createGreatCirclePath(from, to)
             IN route' = [RouteIdle EXCEPT
                    !.op = "interpolateOnGreatCircle",
                    !.path = path,
                    !.t = t,
                    !.point = interpolateOnGreatCircle(path, t, toCartesian(between))]
    /\ UNCHANGED <<alloc, sun, geo, seam, flight, sampling, summary, overlay,
                   counting, playback>>

RouteReturn ==
    /\ route.op # "none"
    /\ route' = RouteIdle
    /\ UNCHANGED <<alloc, sun, geo, seam, flight, sampling, summary, overlay,
                   counting, playback>>

----------------------------------------------------------------------------
(* sunSummary.ts: the number of intervals computeFlightSunSummary cuts a    *)
(* flight into, lines 192-200, for flights from a millisecond to a week     *)

\* the defaults of the options, lines 193-195
DefaultTargetMinutes == 2
DefaultMinIntervals == 180
DefaultMaxIntervals == 5000

\* totalMillis of the flights counted: a few milliseconds, about
\* DefaultMinIntervals milliseconds, and about the lengths at which
\* Math.ceil(totalMinutesExact / 2) is 1, DefaultMinIntervals and
\* DefaultMaxIntervals and one more than each of them
CountedMillis ==
    (1..MaxTinyMillis)
    \cup {DefaultMinIntervals + e : e \in -1..1}
    \cup {k * DefaultTargetMinutes * MillisPerMinute + e :
            k \in {1, DefaultMinIntervals, DefaultMinIntervals + 1,
                   DefaultMaxIntervals, DefaultMaxIntervals + 1},
            e \in -1..1}

CountIdle == [op |-> "none", options |-> DefaultOptions, totalMillis |-> 0,
              intervals |-> 0]

\* computeFlightSunSummary(plan, options) for a plan of totalMillis > 0, from
\* line 192 to line 200: the number of intervals of its loop
CallIntervalCount ==
    /\ counting.op = "none"
    /\ \E totalMillis \in CountedMillis, options \in SummaryOptions :
          counting' = [op |-> "intervalCount", options |-> options,
                       totalMillis |-> totalMillis,
                       intervals |-> intervalCount(totalMillis, options)]
    /\ UNCHANGED <<alloc, sun, geo, seam, flight, sampling, summary, overlay, route,
                   playback>>

\* the caller is done with the flight
CountReturn ==
    /\ counting.op # "none"
    /\ counting' = CountIdle
    /\ UNCHANGED <<alloc, sun, geo, seam, flight, sampling, summary, overlay, route,
                   playback>>

----------------------------------------------------------------------------
(* App.svelte: playback of the timeline. The handlers run one at a time on  *)
(* the browser's event loop; what interleaves is their order                 *)

\* const PLAYBACK_DURATION_SECONDS = 30
PLAYBACK_DURATION_SECONDS == 30

\* const PLAYBACK_FPS = 30
PLAYBACK_FPS == 30

\* t is kept in units of 1/TimelineUnits, so that one millisecond of playback
\* at speed 1 is one unit: dt = elapsedMs / 1000 / PLAYBACK_DURATION_SECONDS
TimelineUnits == 1000 * PLAYBACK_DURATION_SECONDS

\* the handles requestAnimationFrame hands out, followed up to this one
MaxFrames == 6

\* the time between two animation frames: a frame of a busy display, and the
\* frame after the page was hidden for a while
ShortFrameMs == 20

LongFrameMs == 7500

FrameDeltas == {ShortFrameMs, LongFrameMs}

\* the pace buttons: Slow, Normal, Fast
PlaySpeeds == {1, 2, 4}

\* where the range input (min 0, max 1) is dragged to: the start, the middle,
\* just below 0.999 and the end
SliderValues ==
    {0, TimelineUnits \div 2, (999 * TimelineUnits) \div 1000 - 1, TimelineUnits}

\* null, for a handle and for a timestamp
NoHandle == 0

NoTimestamp == -1

\* the component's variables as declared (lines 47-67), with the browser's
\* side of them: the clock, the last handle handed out, the handles of the
\* tickPlayback callbacks that are scheduled, and the handler that ran last
PlaybackInit ==
    [flightPlan |-> FALSE, t |-> 0, sliderValue |-> 0, pendingRaf |-> NoHandle,
     isPlaying |-> FALSE, playSpeed |-> 2, playRaf |-> NoHandle,
     lastPlayTs |-> NoTimestamp,
     now |-> 0, lastHandle |-> 0, frames |-> {}, last |-> "none"]

\* a stopPlayback that forgets the handle without cancelling the frame
stopWithoutCancelling(p) ==
    [p EXCEPT !.playRaf = NoHandle, !.lastPlayTs = NoTimestamp, !.isPlaying = FALSE]

\* stopPlayback(), lines 194-201
stopPlayback(p) ==
    [p EXCEPT !.frames = IF p.playRaf # NoHandle THEN @ \ {p.playRaf} ELSE @,
              !.playRaf = NoHandle,
              !.lastPlayTs = NoTimestamp,
              !.isPlaying = FALSE]

\* playRaf = requestAnimationFrame(tickPlayback)
requestTick(p) ==
    [p EXCEPT !.lastHandle = @ + 1,
              !.frames = @ \cup {p.lastHandle + 1},
              !.playRaf = p.lastHandle + 1]

\* the reactive block of lines 140-160 has run: the plan is there, or it could
\* not be created and flightPlan stays null
FlightPlanChanges ==
    /\ \E created \in BOOLEAN :
          playback' = [playback EXCEPT !.flightPlan = created, !.last = "flightPlan"]
    /\ UNCHANGED <<alloc, sun, geo, seam, flight, sampling, summary, overlay, route,
                   counting>>

\* a pace button is clicked (the buttons are disabled without a flight plan)
SetPlaySpeed ==
    /\ playback.flightPlan
    /\ \E speed \in PlaySpeeds \ {playback.playSpeed} :
          playback' = [playback EXCEPT !.playSpeed = speed, !.last = "playSpeed"]
    /\ UNCHANGED <<alloc, sun, geo, seam, flight, sampling, summary, overlay, route,
                   counting>>

\* togglePlayback(), lines 232-242
TogglePlayback ==
    /\ playback.lastHandle < MaxFrames
    /\ playback' =
          IF ~playback.flightPlan THEN [playback EXCEPT !.last = "toggle"]
          ELSE IF playback.isPlaying
          THEN [stopPlayback(playback) EXCEPT !.last = "toggle"]
          ELSE LET rewound == IF playback.t * 1000 >= 999 * TimelineUnits
                              THEN 0 ELSE playback.t
               IN [requestTick([playback EXCEPT !.t = rewound, !.isPlaying = TRUE,
                                                !.lastPlayTs = NoTimestamp])
                     EXCEPT !.last = "toggle"]
    /\ UNCHANGED <<alloc, sun, geo, seam, flight, sampling, summary, overlay, route,
                   counting>>

\* onSliderInput(event), lines 181-192 (the slider is disabled without a
\* flight plan)
OnSliderInput ==
    /\ playback.flightPlan
    /\ playback.lastHandle < MaxFrames
    /\ \E value \in SliderValues :
          LET stopped == IF playback.isPlaying THEN stopPlayback(playback)
                         ELSE playback
              moved == [stopped EXCEPT !.sliderValue = value, !.last = "slider"]
          IN playback' =
                IF moved.pendingRaf # NoHandle THEN moved
                ELSE [moved EXCEPT !.lastHandle = @ + 1,
                                   !.pendingRaf = moved.lastHandle + 1]
    /\ UNCHANGED <<alloc, sun, geo, seam, flight, sampling, summary, overlay, route,
                   counting>>

\* the animation frame requested by onSliderInput, lines 188-191, and the
\* reactive clamps of t, lines 162-164
SliderFrame ==
    /\ playback.pendingRaf # NoHandle
    /\ playback' = [playback EXCEPT
          !.t = Max(0, Min(TimelineUnits, playback.sliderValue)),
          !.pendingRaf = NoHandle,
          !.last = "sliderFrame"]
    /\ UNCHANGED <<alloc, sun, geo, seam, flight, sampling, summary, overlay, route,
                   counting>>

\* tickPlayback(now), lines 203-230: a scheduled playback frame runs, delta
\* milliseconds after the frame before it
TickPlayback ==
    /\ playback.lastHandle < MaxFrames
    /\ \E handle \in playback.frames, delta \in FrameDeltas :
          LET now == playback.now + delta
              p == [playback EXCEPT !.frames = @ \ {handle}, !.now = now]
              elapsedMs == now - p.lastPlayTs
              advanced == [p EXCEPT
                  !.lastPlayTs = now,
                  !.t = Min(TimelineUnits, p.t + elapsedMs * p.playSpeed)]
          IN playback' =
                IF ~p.isPlaying THEN [p EXCEPT !.last = "tick"]
                ELSE IF ~p.flightPlan THEN [stopPlayback(p) EXCEPT !.last = "tick"]
                ELSE IF p.lastPlayTs = NoTimestamp
                THEN [requestTick([p EXCEPT !.lastPlayTs = now]) EXCEPT !.last = "tick"]
                ELSE IF elapsedMs * PLAYBACK_FPS < 1000
                THEN [requestTick(p) EXCEPT !.last = "tick"]
                ELSE IF advanced.t >= TimelineUnits
                THEN [stopPlayback(advanced) EXCEPT !.last = "advance"]
                ELSE [requestTick(advanced) EXCEPT !.last = "advance"]
    /\ UNCHANGED <<alloc, sun, geo, seam, flight, sampling, summary, overlay, route,
                   counting>>

----------------------------------------------------------------------------
(* Specifications: the core is synchronous and single-threaded, so each      *)
(* specification runs the calls of one part of it one after another          *)

Init ==
    /\ alloc = AllocIdle
    /\ sun = SunIdle
    /\ geo = GeoIdle
    /\ seam = SeamIdle
    /\ flight = FlightIdle
    /\ sampling = SamplingIdle
    /\ summary = SummaryIdle
    /\ overlay = OverlayIdle
    /\ counting = CountIdle
    /\ playback = PlaybackInit
    /\ route = RouteIdle

NextAlloc ==
    \/ CallAllocateByLargestRemainder
    \/ CallAllocatePercentagesWithMinimum
    \/ AllocReturn

SpecAlloc == Init /\ [][NextAlloc]_vars

NextSun == CallClassifyDaylight \/ CallSunSide \/ SunReturn

SpecSun == Init /\ [][NextSun]_vars

NextGeo ==
    \/ CallProjectEquirectangular
    \/ GeoReturn
    \/ CallSplitPolylineAtMapSeam
    \/ SeamReturn

SpecGeo == Init /\ [][NextGeo]_vars

NextFlight == CallCreateFlightPlan \/ CallSampleFlightAt \/ FlightReturn

SpecFlight == Init /\ [][NextFlight]_vars

NextSummary ==
    \/ CallCreateFlightPlan
    \/ FlightReturn
    \/ SummaryBegin
    \/ SummaryInterval
    \/ SummaryIntervalsToMiddle
    \/ SummaryRemainingIntervals
    \/ SummaryFinish
    \/ SummaryReturn

SpecSummary == Init /\ [][NextSummary]_vars

NextOverlay ==
    \/ CallComputeDayNightOverlay
    \/ CallComputeDayNightOverlayAtEquinox
    \/ OverlayReturn

SpecOverlay == Init /\ [][NextOverlay]_vars

NextRoute ==
    \/ CallEstimateFlightDurationMinutes
    \/ CallInterpolateOnGreatCircle
    \/ RouteReturn

NextIntervals == CallIntervalCount \/ CountReturn

SpecIntervals == Init /\ [][NextIntervals]_vars

NextPlayback ==
    \/ FlightPlanChanges
    \/ SetPlaySpeed
    \/ TogglePlayback
    \/ OnSliderInput
    \/ SliderFrame
    \/ TickPlayback

SpecPlayback == Init /\ [][NextPlayback]_vars

SpecRoute == Init /\ [][NextRoute]_vars

----------------------------------------------------------------------------
(* Properties *)

\* the sum of one field over the buckets of a grouping
SumOf(buckets, field) == sum([j \in 1..Len(buckets) |-> buckets[j][field]])

\* a summary has been returned for a plan that createFlightPlan returned
SummaryReturned ==
    /\ summary.pc = "done"
    /\ flight.hasPlan
    /\ flight.plan.arrivalUtc > flight.plan.departureUtc

\* C1: in every summary computeFlightSunSummary returns for a plan of
\* createFlightPlan, the percents of the direction buckets sum to exactly 100
\* and their minutes to exactly plan.durationMinutes, and so do the percents
\* and the minutes of the daylight buckets
C1_ExactSums ==
    SummaryReturned =>
        /\ SumOf(summary.result.buckets, "percent") = 100
        /\ SumOf(summary.result.buckets, "minutes") = flight.plan.durationMinutes
        /\ SumOf(summary.result.daylight, "percent") = 100
        /\ SumOf(summary.result.daylight, "minutes") = flight.plan.durationMinutes

\* a summary of a flight of a minute or more in which a direction bucket that
\* holds time, and that largest-remainder rounding alone leaves at 0 percent,
\* shows 1 percent
C1_Witness ==
    /\ SummaryReturned
    /\ flight.plan.durationMinutes >= 1
    /\ LET shown == summary.result.buckets
           exact == [j \in 1..Len(shown) |-> Num(shown[j].millis * 100)]
           plain == allocateByLargestRemainder(exact, summary.totalMillis, 100)
       IN \E j \in 1..Len(shown) :
             /\ shown[j].millis > 0
             /\ plain[j] = 0
             /\ shown[j].percent = 1

AllocReturned(op) == alloc.op = op /\ ~alloc.threw

\* the floors of the safe values of a list
FloorsOf(values) == [i \in 1..Len(values) |-> Floor(SafeNum(values[i]), Den)]

\* C2: allocateByLargestRemainder(values, total), for a list of at least one
\* entry and an integer total >= 0, returns a list as long as values whose
\* entries sum to exactly total
C2_SumsToTotal ==
    (alloc.op = "allocateByLargestRemainder" /\ Len(alloc.values) >= 1) =>
        /\ ~alloc.threw
        /\ Len(alloc.out) = Len(alloc.values)
        /\ sum(alloc.out) = alloc.total

\* a call with a non-finite entry whose floors sum to more than a positive total
C2_Witness ==
    /\ AllocReturned("allocateByLargestRemainder")
    /\ \E i \in 1..Len(alloc.values) : ~IsFinite(alloc.values[i])
    /\ alloc.total > 0
    /\ sum(FloorsOf(alloc.values)) > alloc.total

\* the entries of a list with a positive exact value
PositiveEntries(values) == {i \in 1..Len(values) : SafeNum(values[i]) > 0}

\* C3: allocatePercentagesWithMinimum(exact, total, minNonZero), whenever
\* (number of entries with a positive exact value) x minNonZero <= total,
\* returns a list in which every entry with a positive exact value is at least
\* minNonZero and whose entries sum to exactly total
C3_MinimumHonoured ==
    (/\ AllocReturned("allocatePercentagesWithMinimum")
     /\ Len(alloc.values) >= 1
     /\ Cardinality(PositiveEntries(alloc.values)) * alloc.minNonZero <= alloc.total) =>
        /\ \A i \in PositiveEntries(alloc.values) : alloc.out[i] >= alloc.minNonZero
        /\ sum(alloc.out) = alloc.total

\* C4: createFlightPlan with an arrival instant equal to or earlier than the
\* departure instant fails and returns no plan, and every plan it returns has
\* arrivalUtc > departureUtc
C4_ChronologyEnforced ==
    flight.op = "createFlightPlan" =>
        /\ flight.arrivalUtc <= flight.departureUtc =>
              (flight.threw /\ ~flight.hasPlan /\ flight.plan = NoPlan)
        /\ flight.hasPlan =>
              (~flight.threw /\ flight.plan.arrivalUtc > flight.plan.departureUtc)

\* createFlightPlan has rejected an arrival at the very instant of departure
C4_Witness ==
    /\ flight.op = "createFlightPlan"
    /\ flight.threw
    /\ flight.arrivalUtc = flight.departureUtc
    /\ flight.departureUtc > 0

\* C5: classifyDaylight returns day exactly when the altitude is > 0 degrees,
\* twilight exactly when -6 degrees <= altitude <= 0 degrees, and night
\* otherwise
C5_DaylightThresholds ==
    sun.op = "classifyDaylight" =>
        /\ sun.status \in {"day", "twilight", "night"}
        /\ sun.status = "day" <=> sun.altitude > 0
        /\ sun.status = "twilight" <=>
              (-6 * DegreeScale <= sun.altitude /\ sun.altitude <= 0)
        /\ sun.status = "night" <=> sun.altitude < -6 * DegreeScale

\* an altitude just above -6 degrees has been classified as twilight
C5_Witness ==
    /\ sun.op = "classifyDaylight"
    /\ sun.altitude = -6 * DegreeScale + 1
    /\ sun.status = "twilight"

\* C6, as claimed: an altitude of exactly 0 degrees is day, exactly -6 degrees
\* is twilight, and the next altitude below -6 degrees (-6.0001) is night
C6_BoundariesAsClaimed ==
    sun.op = "classifyDaylight" =>
        /\ sun.altitude = 0 => sun.status = "day"
        /\ sun.altitude = -6 * DegreeScale => sun.status = "twilight"
        /\ sun.altitude = -6 * DegreeScale - 1 => sun.status = "night"

\* C6, amended: an altitude of exactly 0 degrees is twilight and the next
\* altitude above it is day; exactly -6 degrees is twilight, and the next
\* altitude below -6 degrees (-6.0001) is night
C6_Boundaries ==
    sun.op = "classifyDaylight" =>
        /\ sun.altitude = 0 => sun.status = "twilight"
        /\ sun.altitude = 1 => sun.status = "day"
        /\ sun.altitude = -6 * DegreeScale => sun.status = "twilight"
        /\ sun.altitude = -6 * DegreeScale - 1 => sun.status = "night"

\* an altitude of exactly 0 degrees has been classified
C6_Witness ==
    /\ sun.op = "classifyDaylight"
    /\ sun.altitude = 0
    /\ sun.status = "twilight"

\* D = ((sunBearing - heading + 540) mod 360) - 180, in angle units
SignedDifference(headingDeg, sunBearingDeg) ==
    ((sunBearingDeg - headingDeg + 540 * AngleScale) % (360 * AngleScale))
        - 180 * AngleScale

\* C7: for heading and sun bearing in [0, 360), the side is ahead iff
\* |D| <= 15, behind iff |D| >= 165, right iff 15 < D < 165 and left iff
\* -165 < D < -15; it is always one of the four
C7_SideOfAircraft ==
    sun.op = "sunSide" =>
        LET D == SignedDifference(sun.headingDeg, sun.sunBearingDeg)
        IN /\ sun.side \in {"ahead", "behind", "right", "left"}
           /\ sun.side = "ahead" <=> Abs(D) <= 15 * AngleScale
           /\ sun.side = "behind" <=> Abs(D) >= 165 * AngleScale
           /\ sun.side = "right" <=> (15 * AngleScale < D /\ D < 165 * AngleScale)
           /\ sun.side = "left" <=> (-165 * AngleScale < D /\ D < -15 * AngleScale)

\* the sun just past the 15 degrees ahead, on the left, its bearing the
\* smaller of the two angles
C7_Witness ==
    /\ sun.op = "sunSide"
    /\ sun.side = "left"
    /\ sun.sunBearingDeg < sun.headingDeg
    /\ sun.headingDeg - sun.sunBearingDeg = 15 * AngleScale + 1

\* the fraction cut to [0, 1], written out
ClampedTo01(fraction) ==
    IF RLess(fraction, RInt(0)) THEN RInt(0)
    ELSE IF RLess(RInt(1), fraction) THEN RInt(1)
    ELSE fraction

\* C8: sampleFlightAt(plan, fraction) returns t, the fraction clamped to
\* [0, 1], and utcMillis = departureUtc + t x (arrivalUtc - departureUtc); the
\* instant lies in [departureUtc, arrivalUtc], is departureUtc at t = 0 and
\* arrivalUtc at t = 1, and of two samples of one plan the one with the larger
\* fraction has no earlier instant
C8_SampleInstant ==
    LET plan == flight.plan
        s == sampling.last
        total == plan.arrivalUtc - plan.departureUtc
    IN /\ sampling.taken >= 1 =>
            /\ s.t = ClampedTo01(s.fraction)
            /\ RLeq(RInt(0), s.t) /\ RLeq(s.t, RInt(1))
            /\ s.utcMillis = RAdd(RInt(plan.departureUtc), RMul(s.t, RInt(total)))
            /\ RLeq(RInt(plan.departureUtc), s.utcMillis)
            /\ RLeq(s.utcMillis, RInt(plan.arrivalUtc))
            /\ s.t = RInt(0) => s.utcMillis = RInt(plan.departureUtc)
            /\ s.t = RInt(1) => s.utcMillis = RInt(plan.arrivalUtc)
       /\ sampling.taken = 2 =>
            /\ RLeq(sampling.prev.fraction, s.fraction) =>
                  RLeq(sampling.prev.utcMillis, s.utcMillis)
            /\ RLeq(s.fraction, sampling.prev.fraction) =>
                  RLeq(s.utcMillis, sampling.prev.utcMillis)

\* a plan that departs after the epoch, sampled below 0 and then above 1
C8_Witness ==
    /\ flight.hasPlan
    /\ flight.plan.departureUtc > 0
    /\ sampling.taken = 2
    /\ RLess(sampling.prev.fraction, RInt(0))
    /\ RLess(RInt(1), sampling.last.fraction)
    /\ sampling.last.utcMillis = RInt(flight.plan.arrivalUtc)

\* C9: for lat in [-90, 90], lon in [-180, 180] and width, height >= 0,
\* projectEquirectangular returns x in [0, width] and y in [0, height]; for
\* any lat and lon it returns x = (lon' + 180) / 360 x width and
\* y = (90 - lat') / 180 x height of lat', lon' clamped to those ranges, so a
\* lat above 90 gives y = 0 and a lon above 180 gives x = width
C9_ProjectionClamped ==
    geo.op = "projectEquirectangular" =>
        LET lat == geo.point.lat
            lon == geo.point.lon
            latC == IF lat > 90 THEN 90 ELSE IF lat < -90 THEN -90 ELSE lat
            lonC == IF lon > 180 THEN 180 ELSE IF lon < -180 THEN -180 ELSE lon
            x == geo.projected.x
            y == geo.projected.y
        IN /\ (lat = latC /\ lon = lonC) =>
                /\ RLeq(RInt(0), x) /\ RLeq(x, RInt(geo.width))
                /\ RLeq(RInt(0), y) /\ RLeq(y, RInt(geo.height))
           /\ x = R((lonC + 180) * geo.width, 360)
           /\ y = R((90 - latC) * geo.height, 180)
           /\ lat > 90 => y = RInt(0)
           /\ lon > 180 => x = RInt(geo.width)

\* a point north of the pole and east of the antimeridian projected on a map
\* of positive size
C9_Witness ==
    /\ geo.op = "projectEquirectangular"
    /\ geo.point.lat > 90
    /\ geo.point.lon > 180
    /\ geo.width > 0
    /\ geo.height > 0
    /\ geo.projected = [x |-> RInt(geo.width), y |-> RInt(0)]

\* C10: for a polyline whose points have x in [0, width], width > 0,
\* splitPolylineAtMapSeam returns sub-polylines in which no two consecutive
\* points differ in x by more than width / 2
C10_NoLongJump ==
    (/\ seam.op = "splitPolylineAtMapSeam"
     /\ seam.width > 0
     /\ \A k \in 1..Len(seam.points) :
           0 <= seam.points[k].x /\ seam.points[k].x <= seam.width) =>
        \A g \in 1..Len(seam.segments) :
            \A k \in 1..(Len(seam.segments[g]) - 1) :
                2 * Abs(seam.segments[g][k + 1].x - seam.segments[g][k].x)
                    <= seam.width

\* a polyline of three points inside the map that crossed the seam: it came
\* back in two or more pieces, with points put in on the seam
C10_Witness ==
    /\ seam.op = "splitPolylineAtMapSeam"
    /\ seam.width > 0
    /\ Len(seam.points) = 3
    /\ \A k \in 1..3 : 0 <= seam.points[k].x /\ seam.points[k].x <= seam.width
    /\ Len(seam.segments) >= 2
    /\ \E g \in 1..Len(seam.segments) :
          /\ Len(seam.segments[g]) >= 2
          /\ seam.segments[g][1].x = seam.width
          /\ seam.segments[g][1] \notin {seam.points[k] : k \in 1..3}

\* an overlay has been computed
OverlayComputed == overlay.op = "computeDayNightOverlay"

PositiveCanvas == overlay.width.n > 0 /\ overlay.height.n > 0

\* C11: computeDayNightOverlay called with width <= 0 or height <= 0 returns
\* an overlay whose terminatorPath, dayPath, nightPath and twilightPath are
\* all the empty string, at an equinox instant and at any other
C11_EmptyOnEmptyCanvas ==
    (OverlayComputed /\ ~PositiveCanvas) =>
        /\ overlay.paths.terminatorPath = <<>>
        /\ overlay.paths.dayPath = <<>>
        /\ overlay.paths.nightPath = <<>>
        /\ overlay.paths.twilightPath = <<>>

\* an overlay computed at an equinox instant for a canvas of negative width
\* and positive height
C11_Witness ==
    /\ OverlayComputed
    /\ nearEquinox(overlay.subsolar)
    /\ overlay.width.n < 0
    /\ overlay.height.n > 0
    /\ overlay.paths = NoPaths

\* the coordinate pairs emitted in the four paths, in tenths
EmittedPairs ==
    LET all == overlay.paths.terminatorPath \o overlay.paths.dayPath
                  \o overlay.paths.nightPath \o overlay.paths.twilightPath
    IN {<<all[i].x, all[i].y>> : i \in {j \in 1..Len(all) : all[j].op # "Z"}}

\* a number of tenths lies in [0, limit], within tolerance
WithinTenths(c, limit, tolerance) ==
    /\ RLeq(RNeg(tolerance), R(c, 10))
    /\ RLeq(R(c, 10), RAdd(limit, tolerance))

\* the canvas size is a whole number of tenths
WholeTenths(size) == (10 * size.n) % size.d = 0

\* C12, as claimed: for any canvas with width > 0 and height > 0 every
\* coordinate pair emitted in the four paths lies within [0, width] x
\* [0, height], within 1e-6
C12_BoundedOnAnyCanvas ==
    (OverlayComputed /\ PositiveCanvas) =>
        \A pair \in EmittedPairs :
            /\ WithinTenths(pair[1], overlay.width, R(1, 1000000))
            /\ WithinTenths(pair[2], overlay.height, R(1, 1000000))

\* C12, amended: for a canvas whose width > 0 and height > 0 are whole
\* multiples of 0.1, every coordinate pair emitted in the four paths lies
\* within [0, width] x [0, height], in the equinox branch and outside it
C12_BoundedOnWholeTenths ==
    (/\ OverlayComputed /\ PositiveCanvas
     /\ WholeTenths(overlay.width) /\ WholeTenths(overlay.height)) =>
        \A pair \in EmittedPairs :
            /\ WithinTenths(pair[1], overlay.width, RInt(0))
            /\ WithinTenths(pair[2], overlay.height, RInt(0))

\* an equinox overlay on a whole canvas whose twilight band was split at the
\* seam into two polygons or more, with points on both edges of the map
C12_Witness ==
    /\ OverlayComputed /\ PositiveCanvas
    /\ WholeTenths(overlay.width) /\ WholeTenths(overlay.height)
    /\ nearEquinox(overlay.subsolar)
    /\ LET band == overlay.paths.twilightPath
       IN /\ Cardinality({i \in 1..Len(band) : band[i].op = "M"}) >= 2
          /\ \E i \in 1..Len(band) : band[i].op = "L" /\ band[i].x = fmt(overlay.width)
          /\ \E i \in 1..Len(band) : band[i].op = "L" /\ band[i].x = 0

\* the terminator polyline closed against the top edge and the bottom edge
ClosedAtTop ==
    overlay.paths.terminatorPath
        \o <<LineTo(fmt(overlay.width), 0), LineTo(0, 0), ClosePath>>

ClosedAtBottom ==
    overlay.paths.terminatorPath
        \o <<LineTo(fmt(overlay.width), fmt(overlay.height)),
             LineTo(0, fmt(overlay.height)), ClosePath>>

\* C13: outside the equinox branch, dayPath is the terminator polyline closed
\* against the top edge exactly when the subsolar latitude is > 0 and against
\* the bottom edge otherwise, and nightPath is the terminator polyline closed
\* against the opposite edge
C13_DayHemisphere ==
    (OverlayComputed /\ PositiveCanvas /\ ~nearEquinox(overlay.subsolar)) =>
        /\ overlay.paths.terminatorPath # <<>>
        /\ overlay.subsolar.lat.n > 0 =>
              /\ overlay.paths.dayPath = ClosedAtTop
              /\ overlay.paths.nightPath = ClosedAtBottom
        /\ overlay.subsolar.lat.n <= 0 =>
              /\ overlay.paths.dayPath = ClosedAtBottom
              /\ overlay.paths.nightPath = ClosedAtTop

\* an overlay of the southern summer, just outside the equinox threshold: the
\* day lies south of a terminator of three samples
C13_Witness ==
    /\ OverlayComputed /\ PositiveCanvas
    /\ ~nearEquinox(overlay.subsolar)
    /\ overlay.subsolar.lat.n < 0
    /\ RLess(RInt(-1), overlay.subsolar.lat)
    /\ Len(overlay.paths.terminatorPath) = 3
    /\ overlay.paths.dayPath = ClosedAtBottom
    /\ overlay.paths.dayPath # ClosedAtTop

\* the x, as printed, of the meridian offset degrees east of the subsolar one
MeridianX(offset) ==
    LET lon == overlay.subsolar.lon + offset
        wrapped == IF lon >= 180 THEN lon - 360
                   ELSE IF lon < -180 THEN lon + 360 ELSE lon
    IN fmt(R((wrapped + 180) * overlay.width.n, 360 * overlay.width.d))

\* C14: whenever |subsolar latitude| <= 1e-3 degrees, terminatorPath (on a
\* canvas of positive size) is two vertical lines from y = 0 to y = height at
\* the x of the meridians 90 degrees west and 90 degrees east of the subsolar
\* longitude, and it holds at most 2 distinct x-coordinates
C14_EquinoxTerminator ==
    (OverlayComputed /\ nearEquinox(overlay.subsolar)) =>
        /\ PositiveCanvas =>
              overlay.paths.terminatorPath =
                  <<MoveTo(MeridianX(-90), 0),
                    LineTo(MeridianX(-90), fmt(overlay.height)),
                    MoveTo(MeridianX(90), 0),
                    LineTo(MeridianX(90), fmt(overlay.height))>>
        /\ Cardinality({overlay.paths.terminatorPath[i].x :
                           i \in 1..Len(overlay.paths.terminatorPath)}) <= 2

\* an overlay with the subsolar latitude exactly on the threshold and the
\* subsolar point on the seam: two lines at different x
C14_Witness ==
    /\ OverlayComputed /\ PositiveCanvas
    /\ overlay.subsolar.lat = EQUINOX_LAT_EPS_DEG
    /\ overlay.subsolar.lon = -180
    /\ Len(overlay.paths.terminatorPath) = 4
    /\ overlay.paths.terminatorPath[1].x # overlay.paths.terminatorPath[3].x

\* the naive duration in minutes, distance / 1000 / cruiseSpeedKmh x 60
NaiveMinutes == R(route.distanceMeters.n * 60, 1000 * route.options.cruiseSpeedKmh)

\* the smallest multiple of roundToMinutes that is >= the naive duration
SmallestMultiple ==
    Ceil(NaiveMinutes.n, NaiveMinutes.d * route.options.roundToMinutes)
        * route.options.roundToMinutes

\* an estimate for a positive finite distance and positive options
EstimatedWithOptions ==
    /\ route.op = "estimateFlightDurationMinutes"
    /\ route.distanceMeters.k = "num" /\ route.distanceMeters.n > 0
    /\ route.options.cruiseSpeedKmh > 0
    /\ route.options.roundToMinutes > 0
    /\ route.options.minMinutes > 0

\* C15: for a positive finite distance and positive integer cruiseSpeedKmh,
\* roundToMinutes and minMinutes, estimateFlightDurationMinutes returns
\* max(minMinutes, M), M the smallest multiple of roundToMinutes that is >=
\* distance / 1000 / cruiseSpeedKmh x 60; so the result is never below the
\* naive duration nor below minMinutes
C15_RoundsUpToMultiple ==
    EstimatedWithOptions =>
        /\ route.minutes = Max(route.options.minMinutes, SmallestMultiple)
        /\ RLeq(NaiveMinutes, RInt(route.minutes))
        /\ route.minutes >= route.options.minMinutes

Interpolated == route.op = "interpolateOnGreatCircle"

LonInRange(point) == point.lon >= -180 /\ point.lon <= 180

\* two different coordinate pairs of one place of the globe: a pole under two
\* longitudes, or a latitude under two longitudes a whole turn apart
SamePlaceTwice(p, q) ==
    /\ p # q
    /\ p.lat = q.lat
    /\ (Abs(p.lat) = 90 \/ (p.lon - q.lon) % 360 = 0)

MillisOver(millis, order) == sum([j \in 1..Len(order) |-> millis[order[j]]])

\* C17: computeFlightSunSummary, for a plan with arrivalUtc > departureUtc,
\* cuts the flight into contiguous intervals, each adding its full span to one
\* direction bucket and one daylight bucket: after i intervals both groupings
\* hold the millis from the departure to the end of interval i, the night
\* bucket of both is the same, and in the summary returned the millis of the
\* direction buckets and of the daylight buckets each sum to
\* arrivalUtc - departureUtc
C17_FullSpans ==
    /\ summary.pc = "loop" =>
          LET covered == intervalStart(summary.totalMillis, summary.intervals, summary.i)
          IN /\ MillisOver(summary.bucketMillis, BUCKET_ORDER) = covered
             /\ MillisOver(summary.statusMillis, DAYLIGHT_ORDER) = covered
             /\ summary.bucketMillis["night"] = summary.statusMillis["night"]
             /\ summary.i = summary.intervals =>
                   covered = flight.plan.arrivalUtc - flight.plan.departureUtc
    /\ SummaryReturned =>
          /\ SumOf(summary.result.buckets, "millis")
                = flight.plan.arrivalUtc - flight.plan.departureUtc
          /\ SumOf(summary.result.daylight, "millis")
                = flight.plan.arrivalUtc - flight.plan.departureUtc

\* a summary of a flight cut into intervals of unequal spans, with time in two
\* direction buckets and in two daylight buckets
C17_Witness ==
    /\ SummaryReturned
    /\ summary.intervals >= 2
    /\ summary.totalMillis % summary.intervals # 0
    /\ Cardinality({j \in 1..Len(summary.result.buckets) :
                       summary.result.buckets[j].millis > 0}) >= 2
    /\ Cardinality({j \in 1..Len(summary.result.daylight) :
                       summary.result.daylight[j].millis > 0}) >= 2

\* allocateByLargestRemainder has returned
RemainderReturned == AllocReturned("allocateByLargestRemainder")

\* the fractional parts of the values, as numerators over Den
FracsOf(values) ==
    [i \in 1..Len(values) |-> SafeNum(values[i]) - FloorsOf(values)[i] * Den]

\* how many entries come before entry i by fractional part descending, ties
\* by lowest index
RankDescending(values, i) ==
    LET frac == FracsOf(values)
    IN Cardinality({j \in 1..Len(values) :
                       frac[j] > frac[i] \/ (frac[j] = frac[i] /\ j < i)})

\* how many entries come before entry i by fractional part ascending, ties by
\* lowest index
RankAscending(values, i) ==
    LET frac == FracsOf(values)
    IN Cardinality({j \in 1..Len(values) :
                       frac[j] < frac[i] \/ (frac[j] = frac[i] /\ j < i)})

\* total - the sum of the floors
Deficit == alloc.total - sum(FloorsOf(alloc.values))

\* C18: when the floors sum to no more than total and the deficit d is no
\* more than the number of entries, allocateByLargestRemainder returns
\* floor + 1 for exactly the d entries that come first by fractional part
\* descending (ties: lowest index) and the floor for every other entry
C18_LargestRemaindersFirst ==
    (RemainderReturned /\ Deficit >= 0 /\ Deficit <= Len(alloc.values)) =>
        /\ Len(alloc.out) = Len(alloc.values)
        /\ \A i \in 1..Len(alloc.values) :
              alloc.out[i] = FloorsOf(alloc.values)[i]
                               + (IF RankDescending(alloc.values, i) < Deficit THEN 1 ELSE 0)

\* one unit short over three entries, the first a whole number and the other
\* two with the same fractional part: the second entry gets the unit
C18_Witness ==
    /\ RemainderReturned
    /\ Len(alloc.values) = 3
    /\ Deficit = 1
    /\ FracsOf(alloc.values)[1] = 0
    /\ FracsOf(alloc.values)[2] > 0
    /\ FracsOf(alloc.values)[3] = FracsOf(alloc.values)[2]
    /\ alloc.out = setAt(FloorsOf(alloc.values), 2, FloorsOf(alloc.values)[2] + 1)

\* what entry i has lost after `passes` passes over the entries, of which the
\* last one stopped after `reached` of the entries still positive in it; rank
\* is the place of each entry in the order of the passes
RemovedAfter(floors, rank, i, passes, reached) ==
    LET active == {j \in 1..Len(floors) : floors[j] >= passes}
        position == Cardinality({j \in active : rank[j] < rank[i]})
    IN IF floors[i] < passes THEN floors[i]
       ELSE IF position < reached THEN passes
       ELSE passes - 1

\* C19: when the floors sum to more than total, allocateByLargestRemainder
\* removes units one at a time, only from entries that are still positive, in
\* order of fractional part ascending (ties: lowest index), pass after pass,
\* until the sum is total; no entry ends negative
C19_SmallestRemaindersFirst ==
    (RemainderReturned /\ Deficit < 0) =>
        LET floors == FloorsOf(alloc.values)
            rank == [i \in 1..Len(alloc.values) |-> RankAscending(alloc.values, i)]
        IN /\ Len(alloc.out) = Len(alloc.values)
           /\ sum(alloc.out) = alloc.total
           /\ \A i \in 1..Len(alloc.out) : alloc.out[i] >= 0
           /\ \E passes \in 1..(MaxNum \div Den + 1), reached \in 1..Len(alloc.values) :
                 \A i \in 1..Len(alloc.values) :
                     alloc.out[i] = floors[i] - RemovedAfter(floors, rank, i, passes, reached)

\* a removal of two passes: an entry that ran out in the first pass is passed
\* over in the second, which takes a second unit from one entry and none from
\* another that still holds one
C19_Witness ==
    /\ RemainderReturned
    /\ Deficit < 0
    /\ \E i, j, k \in 1..Len(alloc.values) :
          /\ FloorsOf(alloc.values)[i] = 1 /\ alloc.out[i] = 0
          /\ FloorsOf(alloc.values)[j] - alloc.out[j] = 2
          /\ FloorsOf(alloc.values)[k] - alloc.out[k] = 1 /\ alloc.out[k] >= 1
          /\ RankAscending(alloc.values, i) < RankAscending(alloc.values, j)

\* allocatePercentagesWithMinimum has returned
MinimumReturned == AllocReturned("allocatePercentagesWithMinimum")

\* what plain largest-remainder rounding gives the entries
PlainRounding ==
    allocateByLargestRemainder(alloc.values, Den, percentTarget(alloc.total))

\* C20: the redistribution of allocatePercentagesWithMinimum lowers only
\* entries whose exact value is positive and whose largest-remainder value is
\* above minNonZero, never below minNonZero, and leaves every entry whose
\* exact value is zero, negative or not finite as plain largest-remainder
\* rounding produced it
C20_OnlyDonorsLowered ==
    MinimumReturned =>
        LET plain == PlainRounding
        IN /\ Len(alloc.out) = Len(alloc.values)
           /\ \A i \in 1..Len(alloc.values) :
                 /\ alloc.out[i] < plain[i] =>
                       /\ SafeNum(alloc.values[i]) > 0
                       /\ plain[i] > alloc.minNonZero
                       /\ alloc.out[i] >= alloc.minNonZero
                 /\ SafeNum(alloc.values[i]) = 0 => alloc.out[i] = plain[i]

\* a redistribution that lowers a donor to raise a positive entry, next to an
\* entry that is not a finite number and is left as the rounding produced it
C20_Witness ==
    /\ MinimumReturned
    /\ \E i, j, k \in 1..Len(alloc.values) :
          /\ alloc.out[i] < PlainRounding[i]
          /\ alloc.out[i] = alloc.minNonZero
          /\ alloc.out[j] > PlainRounding[j]
          /\ ~IsFinite(alloc.values[k])
          /\ alloc.out[k] = PlainRounding[k]

\* a call of allocatePercentagesWithMinimum whose minimum cannot be given to
\* every positive entry: (positive entries) x minNonZero > total
InfeasibleMinimum ==
    /\ MinimumReturned
    /\ Cardinality(PositiveEntries(alloc.values)) * alloc.minNonZero > alloc.total

\* C21 as stated: when (number of entries with positive exact value) x
\* minNonZero > total, allocatePercentagesWithMinimum returns exactly what
\* allocateByLargestRemainder returns for the same values and the same total
C21_FallsBackOnSameTotal ==
    InfeasibleMinimum =>
        alloc.out = allocateByLargestRemainder(alloc.values, Den, alloc.total)

\* C21: when (number of entries with positive exact value) x minNonZero >
\* total, allocatePercentagesWithMinimum returns exactly what
\* allocateByLargestRemainder returns for the same values and the total
\* clamped to 0..100, no entry raised or lowered
C21_FallsBackOnClampedTotal ==
    InfeasibleMinimum => alloc.out = PlainRounding

\* an infeasible minimum on a positive total: an entry with a positive exact
\* value is returned as 0
C21_Witness ==
    /\ InfeasibleMinimum
    /\ alloc.total > 0
    /\ alloc.minNonZero <= alloc.total
    /\ \E i \in PositiveEntries(alloc.values) : alloc.out[i] = 0

\* the number of intervals of a flight has been computed with no options given
CountedWithDefaults == counting.op = "intervalCount" /\ counting.options = DefaultOptions

\* C22: with default options the number of intervals of
\* computeFlightSunSummary is ceil(flight minutes / 2), the minutes exact,
\* clamped to [180, 5000] and then capped at the milliseconds of the flight;
\* so it lies in 1..5000, is at least 180 when the flight lasts 180 ms or
\* more, never exceeds the milliseconds of the flight, and every interval
\* spans at least 1 ms
C22_DefaultIntervals ==
    CountedWithDefaults =>
        LET totalMillis == counting.totalMillis
            intervals == counting.intervals
            target == Ceil(totalMillis, DefaultTargetMinutes * MillisPerMinute)
            clamped == Max(DefaultMinIntervals, Min(DefaultMaxIntervals, target))
        IN /\ intervals = Min(clamped, totalMillis)
           /\ intervals \in 1..DefaultMaxIntervals
           /\ totalMillis >= DefaultMinIntervals => intervals >= DefaultMinIntervals
           /\ intervals <= totalMillis
           /\ \A i \in 0..(intervals - 1) :
                 intervalStart(totalMillis, intervals, i + 1)
                     - intervalStart(totalMillis, intervals, i) >= 1

\* a flight shorter than 180 ms, cut into one interval for each millisecond
C22_Witness ==
    /\ CountedWithDefaults
    /\ counting.totalMillis > 1
    /\ counting.totalMillis < DefaultMinIntervals
    /\ counting.intervals = counting.totalMillis

\* an overlay has been computed outside the equinox branch for a canvas of
\* positive size
SampledByLongitude ==
    OverlayComputed /\ PositiveCanvas /\ ~nearEquinox(overlay.subsolar)

\* the number of points on each edge of the twilight band: the band is its
\* inner edge forward, its outer edge backward and the closing command
BandCount == (Len(overlay.paths.twilightPath) - 1) \div 2

\* C23: outside the equinox branch and for every value of the samples
\* argument, the inner edge of twilightPath has as many points as
\* terminatorPath and each inner point is the terminator point at the same
\* index
C23_BandOnTerminator ==
    SampledByLongitude =>
        /\ BandCount = Len(overlay.paths.terminatorPath)
        /\ SubSeq(overlay.paths.twilightPath, 1, BandCount) = overlay.paths.terminatorPath

\* the x, as printed, of the point at fraction n/d of the way across the map
AcrossTheMap(n, d) == fmt(RMul(R(n, d), overlay.width))

\* C24 as stated: outside the equinox branch the terminator is sampled at N
\* evenly spaced longitudes of the half-open range [-180, 180), the first at
\* -180: sample j of N (from 0) lies j/N of the way across the map
C24_HalfOpenRange ==
    SampledByLongitude =>
        LET path == overlay.paths.terminatorPath
            count == Len(path)
        IN /\ count = Max(2, overlay.samples)
           /\ \A j \in 0..(count - 1) : path[j + 1].x = AcrossTheMap(j, count)

\* C24: outside the equinox branch the terminator is sampled at N =
\* max(2, samples) evenly spaced longitudes of the closed range [-180, 180],
\* the first at -180 and the last at +180: sample j of N (from 0) lies
\* j/(N - 1) of the way across the map
C24_ClosedRange ==
    SampledByLongitude =>
        LET path == overlay.paths.terminatorPath
            count == Len(path)
        IN /\ count = Max(2, overlay.samples)
           /\ path[1].x = 0
           /\ path[count].x = fmt(overlay.width)
           /\ \A j \in 0..(count - 1) : path[j + 1].x = AcrossTheMap(j, count - 1)

\* a terminator of MaxSamples samples on the widest canvas: its last sample
\* lies on the right edge of the map, at +180 degrees
C24_Witness ==
    /\ SampledByLongitude
    /\ overlay.samples = MaxSamples
    /\ overlay.width = RInt(MaxCanvas)
    /\ Len(overlay.paths.terminatorPath) = MaxSamples
    /\ overlay.paths.terminatorPath[MaxSamples].x = 10 * MaxCanvas

\* C25: when the -6 degree contour has no latitude solution at a sampled
\* longitude, the twilight band has the pole of the night side there on its
\* outer edge: latitude -90 (the bottom of the map) when the subsolar latitude
\* is > 0 and +90 (the top) otherwise; the outer edge has a point for every
\* sampled longitude
C25_NightPoleWhereUnsolved ==
    SampledByLongitude =>
        LET band == overlay.paths.twilightPath
            count == Max(3, overlay.samples)
        IN /\ Len(band) = 2 * count + 1
           /\ \A j \in 0..(count - 1) :
                 LET outer == band[2 * count - j]
                 IN /\ outer.op = "L"
                    /\ outer.x = AcrossTheMap(j, count - 1)
                    /\ (-180 + (j * 360) \div (count - 1)) \in overlay.unsolved =>
                          outer.y = IF overlay.subsolar.lat.n > 0
                                    THEN fmt(overlay.height) ELSE 0

\* a northern-summer overlay on the largest canvas with no solution at one
\* sampled longitude and a solution at another: the outer edge is at the
\* bottom of the map at the first and above it at the second
C25_Witness ==
    /\ SampledByLongitude
    /\ overlay.subsolar.lat.n > 0
    /\ overlay.height = RInt(MaxCanvas)
    /\ LET band == overlay.paths.twilightPath
           count == Max(3, overlay.samples)
       IN \E j, k \in 0..(count - 1) :
             /\ (-180 + (j * 360) \div (count - 1)) \in overlay.unsolved
             /\ (-180 + (k * 360) \div (count - 1)) \notin overlay.unsolved
             /\ band[2 * count - j].y = 10 * MaxCanvas
             /\ band[2 * count - k].y < 10 * MaxCanvas

\* a polyline of two points or more has been split on a map of positive width
SeamSplit ==
    seam.op = "splitPolylineAtMapSeam" /\ seam.width > 0 /\ Len(seam.points) >= 2

\* the input points k and k + 1 lie more than width / 2 apart in x
JumpAfter(k) == 2 * Abs(seam.points[k + 1].x - seam.points[k].x) > seam.width

\* ... and less than width apart
ShortJumpAfter(k) ==
    JumpAfter(k) /\ Abs(seam.points[k + 1].x - seam.points[k].x) < seam.width

\* the sub-polyline that input point k ends up in: one more than the jumps
\* before it
PieceOf(k) == 1 + Cardinality({j \in 1..(k - 1) : JumpAfter(j)})

\* y lies between y1 and y2, in either order
Between(y, y1, y2) ==
    \/ RLeq(y1, y) /\ RLeq(y, y2)
    \/ RLeq(y2, y) /\ RLeq(y, y1)

\* the split after input point k is made with two points put in on opposite
\* edges of the map, at one y between the y of the points k and k + 1
SeamPointsAfter(k) ==
    LET earlier == seam.segments[PieceOf(k)]
        next == seam.segments[PieceOf(k) + 1]
        end == earlier[Len(earlier)]
        start == next[1]
    IN /\ Len(earlier) >= 2 /\ earlier[Len(earlier) - 1] = seam.points[k]
       /\ Len(next) >= 2 /\ next[2] = seam.points[k + 1]
       /\ {end.x, start.x} = {0, seam.width}
       /\ end.y = start.y
       /\ Between(end.y, seam.points[k].y, seam.points[k + 1].y)

\* every input point lies on the map: 0 <= x <= width
PointsOnMap ==
    \A k \in 1..Len(seam.points) :
        0 <= seam.points[k].x /\ seam.points[k].x <= seam.width

\* C26 as stated: whenever splitPolylineAtMapSeam splits between two
\* consecutive input points whose x differs by more than width / 2 but by less
\* than width, it ends the earlier sub-polyline with a point on one edge of
\* the map and starts the next with a point on the opposite edge, both with
\* the same y, which lies between the y of the two input points
C26_SeamPointsForAnyPoints ==
    SeamSplit =>
        /\ Len(seam.segments) = PieceOf(Len(seam.points))
        /\ \A k \in 1..(Len(seam.points) - 1) : ShortJumpAfter(k) => SeamPointsAfter(k)

\* C26: the same for input points that lie on the map, 0 <= x <= width
C26_SeamPointsOnMap ==
    (SeamSplit /\ PointsOnMap) =>
        /\ Len(seam.segments) = PieceOf(Len(seam.points))
        /\ \A k \in 1..(Len(seam.points) - 1) : ShortJumpAfter(k) => SeamPointsAfter(k)

\* a polyline on the map split twice, once through each edge, one of the
\* crossings at a y strictly between the y of its two input points
C26_Witness ==
    /\ SeamSplit /\ PointsOnMap
    /\ Len(seam.points) = 3 /\ Len(seam.segments) = 3
    /\ ShortJumpAfter(1) /\ ShortJumpAfter(2)
    /\ seam.segments[1][2].x = seam.width
    /\ seam.segments[2][3].x = 0
    /\ LET y == seam.segments[1][2].y
       IN /\ y # seam.points[1].y
          /\ y # seam.points[2].y

\* the percents of a grouping are in the order of its millis: a bucket with
\* strictly more millis than another has a percent that is not smaller
OrderedPercents(buckets) ==
    \A a, b \in 1..Len(buckets) :
        buckets[a].millis > buckets[b].millis => buckets[a].percent >= buckets[b].percent

\* C27 as stated: in the returned summary, a bucket with strictly more millis
\* than another bucket of the same grouping has a percent that is not smaller
C27_PercentsFollowMillis ==
    SummaryReturned =>
        /\ OrderedPercents(summary.result.buckets)
        /\ OrderedPercents(summary.result.daylight)

\* the night bucket of a grouping: the last bucket of both orders
NightOf(buckets) == buckets[Len(buckets)]

\* C28 as stated: in every summary returned, the night bucket of the direction
\* grouping and that of the daylight grouping have the same millis, percent
\* and minutes, and left + right + ahead + behind millis equals day + twilight
\* millis
C28_SameNightBucket ==
    SummaryReturned =>
        LET direction == NightOf(summary.result.buckets)
            daylight == NightOf(summary.result.daylight)
        IN /\ direction.key = "night" /\ daylight.key = "night"
           /\ direction.millis = daylight.millis
           /\ direction.percent = daylight.percent
           /\ direction.minutes = daylight.minutes
           /\ SumOf(summary.result.buckets, "millis") - direction.millis
                 = SumOf(summary.result.daylight, "millis") - daylight.millis

\* the buckets of a grouping that hold no time show 0 percent and 0 minutes
EmptyBucketsShowNothing(buckets) ==
    \A j \in 1..Len(buckets) :
        buckets[j].millis = 0 => buckets[j].percent = 0 /\ buckets[j].minutes = 0

\* C29: in every summary returned for a plan of createFlightPlan, a bucket
\* that accumulated 0 millis has percent 0 and minutes 0, in the direction
\* grouping and in the daylight grouping
C29_NothingForEmptyBuckets ==
    SummaryReturned =>
        /\ EmptyBucketsShowNothing(summary.result.buckets)
        /\ EmptyBucketsShowNothing(summary.result.daylight)

\* C28: in every summary returned, the night bucket of the direction
\* grouping and that of the daylight grouping have the same millis and the
\* same fraction, and left + right + ahead + behind millis equals day +
\* twilight millis
C28_SameNightMillis ==
    SummaryReturned =>
        LET direction == NightOf(summary.result.buckets)
            daylight == NightOf(summary.result.daylight)
        IN /\ direction.key = "night" /\ daylight.key = "night"
           /\ direction.millis = daylight.millis
           /\ direction.fraction = daylight.fraction
           /\ SumOf(summary.result.buckets, "millis") - direction.millis
                 = SumOf(summary.result.daylight, "millis") - daylight.millis

\* a summary with time in the night, in two directions and so in the day or
\* the twilight, whose two night buckets hold the same millis and show
\* different percents
C28_Witness ==
    /\ SummaryReturned
    /\ LET direction == NightOf(summary.result.buckets)
           daylight == NightOf(summary.result.daylight)
       IN /\ direction.millis > 0
          /\ direction.millis = daylight.millis
          /\ direction.percent # daylight.percent
          /\ Cardinality({j \in 1..4 : summary.result.buckets[j].millis > 0}) >= 2

\* a summary of a flight of a minute or more with time in two direction
\* buckets or more, whose exact percents and minutes are not whole, and none
\* in another: the units that rounding hands out all go to the buckets with
\* time
C29_Witness ==
    /\ SummaryReturned
    /\ flight.plan.durationMinutes >= 1
    /\ LET shown == summary.result.buckets
       IN /\ Cardinality({j \in 1..Len(shown) : shown[j].millis > 0}) >= 2
          /\ \E j \in 1..Len(shown) : shown[j].millis = 0 /\ shown[j].percent = 0
          /\ \E j \in 1..Len(shown) :
                /\ (shown[j].millis * 100) % summary.totalMillis # 0
                /\ shown[j].millis % MillisPerMinute # 0
                /\ shown[j].percent > (shown[j].millis * 100) \div summary.totalMillis
          /\ \E j \in 1..Len(shown) :
                shown[j].minutes > shown[j].millis \div MillisPerMinute

\* C30: whatever the order of the play button's clicks, the playback frames,
\* the slider's inputs and frames and the changes of the flight plan,
\* isPlaying is true exactly when one playback frame is scheduled, the one
\* playRaf names, and none is scheduled otherwise; t stays within [0, 1];
\* and when a playback frame has advanced t to 1, playback is stopped and no
\* playback frame is scheduled
C30_PlaybackConsistent ==
    /\ playback.isPlaying <=> playback.playRaf # NoHandle
    /\ playback.frames = IF playback.isPlaying THEN {playback.playRaf} ELSE {}
    /\ Cardinality(playback.frames) = IF playback.isPlaying THEN 1 ELSE 0
    /\ 0 <= playback.t /\ playback.t <= TimelineUnits
    /\ (playback.last = "advance" /\ playback.t = TimelineUnits)
          => (~playback.isPlaying /\ playback.playRaf = NoHandle
              /\ playback.frames = {})

\* a playback frame has just advanced t to the end, in a run in which the
\* slider was dragged to the middle and the pace was changed
C30_Witness ==
    /\ playback.last = "advance"
    /\ playback.t = TimelineUnits
    /\ ~playback.isPlaying
    /\ playback.sliderValue = TimelineUnits \div 2
    /\ playback.playSpeed # 2

====
